---- MODULE Spec2Model ----
(***************************************************************************)
(* A model of devenv (ssk8s/devenv): the worker pool, the retry helper,    *)
(* provisioning with its rollback, snapshot restore, the snapshot staging  *)
(* uploader, snapshot catalog generation and the status classifier.        *)
(*                                                                         *)
(* Each subsystem has its own variables, initial predicate, actions and    *)
(* specification; while one subsystem runs, the variables of the others    *)
(* stay at their initial (idle) value.                                     *)
(***************************************************************************)
EXTENDS Integers, Sequences, FiniteSets, TLC

(***************************************************************************)
(* Bounds of the model.                                                    *)
(***************************************************************************)
MaxItems == 2        \* longest input slice handed to ProcessArray
MaxProcs == 2        \* runtime.GOMAXPROCS(0): number of worker goroutines
MaxRetries == 3      \* largest max handed to Backoff
MaxFailures == 4     \* largest number of failures of fn before it succeeds
MaxStagingRuns == 2  \* staging runs against one destination bucket
MaxGenerations == 2  \* runs of snapshot generate against one catalog

VARIABLES
  \* ---- worker.ProcessArray ----
  numItems,      \* len(data)
  failing,       \* the items (by index) on which fn returns (nil, err)
  ctxDone,       \* the caller's ctx has been cancelled
  workerCtxDone, \* cancel() of workerCtx has been called
  wg,            \* sync.WaitGroup counter
  sent,          \* number of items main has handed to dataChan
  wpc,           \* per worker goroutine: its position
  wreq,          \* per worker goroutine: the item it holds (0: none)
  cpc,           \* the collecting goroutine: its position
  cval,          \* the value the collector received and has not appended yet
  results,       \* the results slice
  errors,        \* the errors slice
  mpc,           \* ProcessArray's own goroutine: its position
  sawErrors,     \* what len(errors) > 0 evaluated to
  retResults,    \* returned results
  retErr,        \* returned error ("nil" or "errors occurred")
  calls,         \* per item: number of fn invocations started
  \* ---- devenvutil.Backoff ----
  max,           \* the max argument (maximum number of retries)
  failures,      \* the k of "fn fails exactly k times, then succeeds"
  bctxDone,      \* the ctx argument has been cancelled
  numTries,      \* backOffTries.numTries of the backoff library
  fnCalls,       \* number of fn() invocations so far
  callsAfterCancel, \* fn() invocations started after the cancellation
  bpc,           \* position in Backoff's loop
  bret,          \* Backoff's return value
  \* ---- devenv provision (provision.Options.Run) ----
  runtimeName,   \* --kubernetes-runtime: the backend of o.KubernetesRuntime
  enabledRuntimes, \* box: DeveloperEnvironmentConfig.RuntimeConfig.EnabledRuntimes
  base,          \* o.Base
  configFile,    \* ~/.config/devenv/config.yaml: CurrentContext split on ":" (<<>>: no file)
  clusters,      \* the clusters that exist, as <<runtime, cluster name>>
  created,       \* the cluster this run created (<<>>: none)
  restoreErr,    \* the step of snapshotRestore that failed ("none": none did)
  destroyCalls,  \* the clusters the backend's Destroy was called on by this run
  ppc,           \* position in Run
  pret,          \* Run's return value
  \* ---- devenv snapshot restore (snapshot.Options.RestoreSnapshot) ----
  snapshotName,  \* the snapshotName argument
  liveRestore,   \* the liveRestore argument
  answer,        \* what the prompt returned ("none": not asked yet)
  snapshotFound, \* the backup named snapshotName exists
  existingRestore, \* phase of an earlier Restore of that name ("none": there is none)
  namespaces,    \* the namespaces of the cluster
  pending,       \* deleteNamespaces: the listed namespaces not yet processed
  nsDeleteCalls, \* the namespaces Namespaces().Delete was called on
  nsFailed,      \* deleteNamespaces: some per-namespace function returned an error
  restoreDeletes, \* number of Restores().Delete calls
  restorePhase,  \* phase of the Restore this run created ("none": not created)
  informerSynced, \* the restore informer has done its initial list
  updates,       \* restores the informer's UpdateFunc has yet to send on updates
  rctxDone,      \* ctx has been cancelled
  rpc,           \* position in RestoreSnapshot
  rret,          \* RestoreSnapshot's return value
  \* ---- snapshot staging: the snapshot-uploader job, and provision's fetchSnapshot ----
  stager,        \* which program stages: "uploader", "fetch" ("none": no run yet)
  runs,          \* number of staging runs started
  confDigest,    \* the recorded digest: conf.Source.Digest / snapshot.Digest
  sourceObject,  \* the archive stored under conf.Source.Key / snapshot.URI
  bucket,        \* the destination bucket: <<key, archive the content came from>>
  marker,        \* digest recorded in the bucket's current.yaml ("none": no such object)
  gotMD5,        \* digest of the bytes the last download wrote ("none": no download)
  downloadErr,   \* what the last DownloadFile / downloadArchive returned
  downloadedFile, \* the archive in the opened temporary file ("none": none)
  toUpload,      \* entries of the archive the tar reader has not reached yet
  puts,          \* PutObject calls of this run
  removes,       \* RemoveObject calls of this run
  downloads,     \* downloads started in this run
  retries,       \* fetch: numTries of its backoff
  sctxDone,      \* fetch: ctx has been cancelled
  spc,           \* position in the run
  sret,          \* what StartFromEnv / fetchSnapshot returned
  \* ---- devenv snapshot generate (snapshot.Options.Generate) ----
  catalog,       \* the stored lockfile: per <<target, channel>> its items, newest first
  catalogExists, \* the lockfile object exists in the bucket
  lockfile,      \* Generate's in-memory lockfile
  targets,       \* the targets of s.Targets not generated yet
  generated,     \* the targets generated by this run, with their new item
  channel,       \* the channel argument
  skipUpload,    \* the skipUpload argument
  nextItem,      \* identity of the next generated item
  generations,   \* number of Generate runs started
  gpc,           \* position in Generate
  gret,          \* Generate's return value
  \* ---- devenv status (status.Options.GetStatus) ----
  dockerClient,  \* o.d: "nil" or "ok"
  kubeClient,    \* o.k: "nil" or "ok"
  inspectDevenv, \* outcome of ContainerInspect(containerruntime.ContainerName)
  inspectK3s,    \* outcome of ContainerInspect("k3s")
  versionLabel,  \* the container's io.outreach.devenv.version label ("": none)
  podList,       \* outcome of the pod list
  serverVersion, \* outcome of Discovery().ServerVersion(): "error" or the version
  dnsCheck,      \* outcome of CheckLocalDNSResolution
  status,        \* what GetStatus returned ([Status |-> "none"] before the call)
  \* ---- devenv destroy (destroy.NewOptions, destroy.Options.Run) ----
  dsConfig,      \* the config file's currentContext, split at ":" (<<>>: no file)
  dsEnabled,     \* the box's enabled runtimes
  dsClusters,    \* the clusters that exist
  dsRemoveCache, \* --remove-image-cache
  dsCurrent,     \* o.CurrentClusterName
  dsRuntime,     \* o.KubernetesRuntime
  dsCalls,       \* the backend Destroy calls made
  dspc,          \* position in the destroy command
  dsret,         \* what the destroy command returned
  \* ---- poll loops (devenvutil.WaitForDevenv, SnapshotBackend.waitForMinio) ----
  waiter,        \* which wait is running
  wtCtxDone,     \* the process context has been cancelled
  wtNum,         \* num / attempts
  wtReached,     \* the awaited condition was observed
  wtpc,          \* position in the wait
  wtret,         \* what the wait returned
  \* ---- devenv context (context.Options.Run, setContext) ----
  scFile,        \* the config file's currentContext, split at ":" (<<>>: no file)
  scFile0,       \* the config file when the command started
  scDesired,     \* o.DesiredContext, split at ":" (<<"">>: no argument)
  scExisting,    \* the clusters that exist
  scClusters,    \* the clusters Run has listed
  scConf,        \* conf.CurrentContext in memory
  scHosts,       \* the context /etc/hosts points to
  scKubeconfig,  \* the context kubeconfig.yaml belongs to
  scpc,          \* position in the command
  scret,         \* what the command returned
  \* ---- devenv tunnel (tunnel.Options.Run) ----
  tnStatus,      \* the devenv's status, as GetStatus reports it
  tnLocalApps,   \* o.LocalApps still to run
  tnStale,       \* a localizer socket exists when the command starts
  tnHelper,      \* the tunnel helper process: "none", "running", "exited"
  tnLaunches,    \* number of times the helper was launched
  tnErr,         \* the variable err of Run
  tnCtxDone,     \* the command's context has been cancelled
  tnpc,          \* position in Run
  tnret,         \* what Run returned
  \* ---- process entry point (main) ----
  mnVariant,     \* which of the repository's two main functions is built
  mnGOOS,        \* runtime.GOOS
  mnNeedsUpdate, \* what updater.NeedsUpdate answers
  mnResult,      \* what app.RunContext did: "none", "nil", "error", "panic", "beforeError"
  exitCode,      \* the variable exitCode of main
  mnDefers,      \* main's deferred calls, last registered first
  mnPanicking,   \* a panic is unwinding main
  mnCleanup,     \* cleanup has been redefined to re-execute the binary
  mnExited,      \* os.Exit has been called
  mnStatus,      \* the status passed to os.Exit
  mnExec,        \* syscall.Exec replaced the process image
  mnpc,          \* position in main
  \* ---- deploy-app (App.Deploy) ----
  daLocal,        \* a.Path was given: the application is deployed from a local path
  daVersion,      \* a.Version is set
  daServiceYaml,  \* the checkout holds service.yaml
  daDeployScript, \* the checkout holds scripts/deploy-to-dev.sh
  daType,         \* a.Type
  daJobsLogged,   \* the failure to delete migration jobs was logged
  daBuilds,       \* number of docker image builds
  daDeploys,      \* the deploy scripts run, in order
  dapc,           \* position in Deploy
  daret,          \* what Deploy returned
  \* ---- devenv local-app (localapp.Options.Run) ----
  laArg,          \* the appName argument
  laNsFlag,       \* the value of --namespace ("" when absent)
  laNotBootstrap, \* --not-bootstrap was given
  laOpts,         \* the Options o
  laEnv,          \* what the machine offers: localizer binary, devenv, tunnel
  laErr,          \* the variable err of Run
  laKubecfg,      \* the kubecfg commands run, each with its outcome
  laExposes,      \* number of times the helper's expose command was run
  lapc,           \* position in the command
  laret,          \* what the command returned
  \* ---- Config.ParseContext as a function of the stored string ----
  pxInput,        \* c.CurrentContext, a sequence of characters
  pxRuntime,      \* the first value returned
  pxName,         \* the second value returned
  pxpc,           \* "call" before ParseContext has run, "done" after
  \* ---- devenvutil.WaitForAllPodsToBeReady ----
  wpPods,         \* the cluster's pods: name -> condition
  wpCtxDone,      \* ctx has been cancelled
  wpPolls,        \* calls of FindUnreadyPods so far (counted up to MaxPolls)
  wpUnready,      \* the pods the last poll reported
  wppc,           \* position in WaitForAllPodsToBeReady
  wpret,          \* what it returned
  \* ---- LoftRuntime: the derived cluster name ----
  lfClusterName,  \* lr.clusterName
  lfMu,           \* holder of lr.clusterNameMu (0: unlocked)
  lfOp,           \* the method each caller runs
  lfpc,           \* each caller's position in its method
  lfSeen,         \* the cluster name each caller read for its own use
  lfRaced         \* a read of lr.clusterName ran while another caller was writing it

paVars == <<numItems, failing, ctxDone, workerCtxDone, wg, sent, wpc, wreq,
            cpc, cval, results, errors, mpc, sawErrors, retResults, retErr, calls>>

boVars == <<max, failures, bctxDone, numTries, fnCalls, callsAfterCancel, bpc, bret>>

pvVars == <<runtimeName, enabledRuntimes, base, configFile, clusters, created,
            restoreErr, destroyCalls, ppc, pret>>

rsVars == <<snapshotName, liveRestore, answer, snapshotFound, existingRestore,
            namespaces, pending, nsDeleteCalls, nsFailed, restoreDeletes, restorePhase,
            informerSynced, updates, rctxDone, rpc, rret>>

sgVars == <<stager, runs, confDigest, sourceObject, bucket, marker, gotMD5, downloadErr,
            downloadedFile, toUpload, puts, removes, downloads, retries, sctxDone, spc, sret>>

gnVars == <<catalog, catalogExists, lockfile, targets, generated, channel, skipUpload,
            nextItem, generations, gpc, gret>>

stVars == <<dockerClient, kubeClient, inspectDevenv, inspectK3s, versionLabel, podList,
            serverVersion, dnsCheck, status>>

dsVars == <<dsConfig, dsEnabled, dsClusters, dsRemoveCache, dsCurrent, dsRuntime, dsCalls, dspc, dsret>>

wtVars == <<waiter, wtCtxDone, wtNum, wtReached, wtpc, wtret>>

scVars == <<scFile, scFile0, scDesired, scExisting, scClusters, scConf, scHosts, scKubeconfig, scpc, scret>>

tnVars == <<tnStatus, tnLocalApps, tnStale, tnHelper, tnLaunches, tnErr, tnCtxDone, tnpc, tnret>>

mnVars == <<mnVariant, mnGOOS, mnNeedsUpdate, mnResult, exitCode, mnDefers, mnPanicking, mnCleanup, mnExited, mnStatus, mnExec, mnpc>>

daVars == <<daLocal, daVersion, daServiceYaml, daDeployScript, daType, daJobsLogged, daBuilds, daDeploys, dapc, daret>>

laVars == <<laArg, laNsFlag, laNotBootstrap, laOpts, laEnv, laErr, laKubecfg, laExposes, lapc, laret>>

pxVars == <<pxInput, pxRuntime, pxName, pxpc>>

wpVars == <<wpPods, wpCtxDone, wpPolls, wpUnready, wppc, wpret>>

lfVars == <<lfClusterName, lfMu, lfOp, lfpc, lfSeen, lfRaced>>

vars == <<paVars, boVars, pvVars, rsVars, sgVars, gnVars, stVars, dsVars, wtVars, scVars, tnVars, mnVars, daVars, laVars, pxVars, wpVars, lfVars>>

notPA == <<boVars, pvVars, rsVars, sgVars, gnVars, stVars, dsVars, wtVars, scVars, tnVars, mnVars, daVars, laVars, pxVars, wpVars, lfVars>>
notBO == <<paVars, pvVars, rsVars, sgVars, gnVars, stVars, dsVars, wtVars, scVars, tnVars, mnVars, daVars, laVars, pxVars, wpVars, lfVars>>
notPV == <<paVars, boVars, rsVars, sgVars, gnVars, stVars, dsVars, wtVars, scVars, tnVars, mnVars, daVars, laVars, pxVars, wpVars, lfVars>>
notRS == <<paVars, boVars, pvVars, sgVars, gnVars, stVars, dsVars, wtVars, scVars, tnVars, mnVars, daVars, laVars, pxVars, wpVars, lfVars>>
notSG == <<paVars, boVars, pvVars, rsVars, gnVars, stVars, dsVars, wtVars, scVars, tnVars, mnVars, daVars, laVars, pxVars, wpVars, lfVars>>
notGN == <<paVars, boVars, pvVars, rsVars, sgVars, stVars, dsVars, wtVars, scVars, tnVars, mnVars, daVars, laVars, pxVars, wpVars, lfVars>>
notST == <<paVars, boVars, pvVars, rsVars, sgVars, gnVars, dsVars, wtVars, scVars, tnVars, mnVars, daVars, laVars, pxVars, wpVars, lfVars>>
notDS == <<paVars, boVars, pvVars, rsVars, sgVars, gnVars, stVars, wtVars, scVars, tnVars, mnVars, daVars, laVars, pxVars, wpVars, lfVars>>
notWT == <<paVars, boVars, pvVars, rsVars, sgVars, gnVars, stVars, dsVars, scVars, tnVars, mnVars, daVars, laVars, pxVars, wpVars, lfVars>>
notSC == <<paVars, boVars, pvVars, rsVars, sgVars, gnVars, stVars, dsVars, wtVars, tnVars, mnVars, daVars, laVars, pxVars, wpVars, lfVars>>
notTN == <<paVars, boVars, pvVars, rsVars, sgVars, gnVars, stVars, dsVars, wtVars, scVars, mnVars, daVars, laVars, pxVars, wpVars, lfVars>>
notMN == <<paVars, boVars, pvVars, rsVars, sgVars, gnVars, stVars, dsVars, wtVars, scVars, tnVars, daVars, laVars, pxVars, wpVars, lfVars>>
notDA == <<paVars, boVars, pvVars, rsVars, sgVars, gnVars, stVars, dsVars, wtVars, scVars, tnVars, mnVars, laVars, pxVars, wpVars, lfVars>>
notLA == <<paVars, boVars, pvVars, rsVars, sgVars, gnVars, stVars, dsVars, wtVars, scVars, tnVars, mnVars, daVars, pxVars, wpVars, lfVars>>
notPX == <<paVars, boVars, pvVars, rsVars, sgVars, gnVars, stVars, dsVars, wtVars, scVars, tnVars, mnVars, daVars, laVars, wpVars, lfVars>>
notWP == <<paVars, boVars, pvVars, rsVars, sgVars, gnVars, stVars, dsVars, wtVars, scVars, tnVars, mnVars, daVars, laVars, pxVars, lfVars>>
notLF == <<paVars, boVars, pvVars, rsVars, sgVars, gnVars, stVars, dsVars, wtVars, scVars, tnVars, mnVars, daVars, laVars, pxVars, wpVars>>

Workers == 1..MaxProcs

(***************************************************************************)
(* worker.ProcessArray                                                     *)
(***************************************************************************)
\* State right after the goroutines have been started (lines 14-70).
PAInit ==
  /\ numItems \in 0..MaxItems
  /\ failing \in SUBSET (1..numItems)
  /\ ctxDone = FALSE
  /\ workerCtxDone = FALSE
  /\ wg = numItems
  /\ sent = 0
  /\ wpc = [w \in Workers |-> "select"]
  /\ wreq = [w \in Workers |-> 0]
  /\ cpc = "select"
  /\ cval = 0
  /\ results = <<>>
  /\ errors = <<>>
  /\ mpc = "send"
  /\ sawErrors = FALSE
  /\ retResults = <<>>
  /\ retErr = "nil"
  /\ calls = [i \in 1..MaxItems |-> 0]

\* The subsystem at rest, while another subsystem is being explored.
PAIdle ==
  /\ numItems = 0
  /\ failing = {}
  /\ ctxDone = FALSE
  /\ workerCtxDone = FALSE
  /\ wg = 0
  /\ sent = 0
  /\ wpc = [w \in Workers |-> "select"]
  /\ wreq = [w \in Workers |-> 0]
  /\ cpc = "select"
  /\ cval = 0
  /\ results = <<>>
  /\ errors = <<>>
  /\ mpc = "idle"
  /\ sawErrors = FALSE
  /\ retResults = <<>>
  /\ retErr = "nil"
  /\ calls = [i \in 1..MaxItems |-> 0]

\* fn's outcome on item i: a non-nil result (the item itself) or an error.
FnRes(i) == IF i \in failing THEN 0 ELSE i
FnErr(i) == i \in failing

\* The caller cancels ctx (workerCtx is derived from it).
CancelCtx ==
  /\ mpc \in {"send", "wait"}
  /\ ~ctxDone
  /\ ctxDone' = TRUE
  /\ UNCHANGED notPA
  /\ UNCHANGED <<numItems, failing, workerCtxDone, wg, sent, wpc, wreq, cpc, cval,
                 results, errors, mpc, sawErrors, retResults, retErr, calls>>

\* `dataChan <- req` meets `req := <-dataChan` of worker w (unbuffered).
SendData(w) ==
  /\ mpc = "send"
  /\ sent < numItems
  /\ wpc[w] = "select"
  /\ sent' = sent + 1
  /\ wreq' = [wreq EXCEPT ![w] = sent + 1]
  /\ wpc' = [wpc EXCEPT ![w] = "call"]
  /\ UNCHANGED notPA
  /\ UNCHANGED <<numItems, failing, ctxDone, workerCtxDone, wg, cpc, cval,
                 results, errors, mpc, sawErrors, retResults, retErr, calls>>

\* The range loop over data is over: main goes on to wg.Wait().
SendDone ==
  /\ mpc = "send"
  /\ sent = numItems
  /\ mpc' = "wait"
  /\ UNCHANGED notPA
  /\ UNCHANGED <<numItems, failing, ctxDone, workerCtxDone, wg, sent, wpc, wreq,
                 cpc, cval, results, errors, sawErrors, retResults, retErr, calls>>

\* case <-workerCtx.Done(): return
WorkerExit(w) ==
  /\ wpc[w] = "select"
  /\ ctxDone \/ workerCtxDone
  /\ wpc' = [wpc EXCEPT ![w] = "exit"]
  /\ UNCHANGED notPA
  /\ UNCHANGED <<numItems, failing, ctxDone, workerCtxDone, wg, sent, wreq, cpc, cval,
                 results, errors, mpc, sawErrors, retResults, retErr, calls>>

\* res, err := fn(workerCtx, req)
WorkerCall(w) ==
  /\ wpc[w] = "call"
  /\ calls' = [calls EXCEPT ![wreq[w]] = @ + 1]
  /\ wpc' = [wpc EXCEPT ![w] =
        IF FnRes(wreq[w]) # 0 THEN "sendRes"
        ELSE IF FnErr(wreq[w]) THEN "sendErr" ELSE "wgDone"]
  /\ UNCHANGED notPA
  /\ UNCHANGED <<numItems, failing, ctxDone, workerCtxDone, wg, sent, wreq, cpc, cval,
                 results, errors, mpc, sawErrors, retResults, retErr>>

\* `resultsChan <- res` meets `resp := <-resultsChan` of the collector.
SendResult(w) ==
  /\ wpc[w] = "sendRes"
  /\ cpc = "select"
  /\ cval' = FnRes(wreq[w])
  /\ cpc' = "appendRes"
  /\ wpc' = [wpc EXCEPT ![w] = IF FnErr(wreq[w]) THEN "sendErr" ELSE "wgDone"]
  /\ UNCHANGED notPA
  /\ UNCHANGED <<numItems, failing, ctxDone, workerCtxDone, wg, sent, wreq,
                 results, errors, mpc, sawErrors, retResults, retErr, calls>>

\* `errChan <- err` meets `err := <-errChan` of the collector.
SendError(w) ==
  /\ wpc[w] = "sendErr"
  /\ cpc = "select"
  /\ cval' = wreq[w]
  /\ cpc' = "appendErr"
  /\ wpc' = [wpc EXCEPT ![w] = "wgDone"]
  /\ UNCHANGED notPA
  /\ UNCHANGED <<numItems, failing, ctxDone, workerCtxDone, wg, sent, wreq,
                 results, errors, mpc, sawErrors, retResults, retErr, calls>>

\* wg.Done(), then back to the select.
WorkerDone(w) ==
  /\ wpc[w] = "wgDone"
  /\ wg' = wg - 1
  /\ wpc' = [wpc EXCEPT ![w] = "select"]
  /\ wreq' = [wreq EXCEPT ![w] = 0]
  /\ UNCHANGED notPA
  /\ UNCHANGED <<numItems, failing, ctxDone, workerCtxDone, sent, cpc, cval,
                 results, errors, mpc, sawErrors, retResults, retErr, calls>>

\* *results = append(*results, resp)
CollectResult ==
  /\ cpc = "appendRes"
  /\ results' = Append(results, cval)
  /\ cpc' = "select"
  /\ cval' = 0
  /\ UNCHANGED notPA
  /\ UNCHANGED <<numItems, failing, ctxDone, workerCtxDone, wg, sent, wpc, wreq,
                 errors, mpc, sawErrors, retResults, retErr, calls>>

\* *errors = append(*errors, err)
CollectError ==
  /\ cpc = "appendErr"
  /\ errors' = Append(errors, cval)
  /\ cpc' = "select"
  /\ cval' = 0
  /\ UNCHANGED notPA
  /\ UNCHANGED <<numItems, failing, ctxDone, workerCtxDone, wg, sent, wpc, wreq,
                 results, mpc, sawErrors, retResults, retErr, calls>>

\* case <-ctx.Done(): return (the collector listens to the caller's ctx only)
CollectorExit ==
  /\ cpc = "select"
  /\ ctxDone
  /\ cpc' = "exit"
  /\ UNCHANGED notPA
  /\ UNCHANGED <<numItems, failing, ctxDone, workerCtxDone, wg, sent, wpc, wreq, cval,
                 results, errors, mpc, sawErrors, retResults, retErr, calls>>

\* A wg.Wait() that does not wait.
WaitGroupAny(n) == TRUE

\* wg.Wait() returns once the counter is zero.
WaitGroupZero(n) == n = 0

\* wg.Wait() returns; cancel()
WaitDone ==
  /\ mpc = "wait"
  /\ WaitGroupZero(wg)
  /\ workerCtxDone' = TRUE
  /\ mpc' = "check"
  /\ UNCHANGED notPA
  /\ UNCHANGED <<numItems, failing, ctxDone, wg, sent, wpc, wreq, cpc, cval,
                 results, errors, sawErrors, retResults, retErr, calls>>

\* if len(errors) > 0
CheckErrors ==
  /\ mpc = "check"
  /\ sawErrors' = (Len(errors) > 0)
  /\ mpc' = "return"
  /\ UNCHANGED notPA
  /\ UNCHANGED <<numItems, failing, ctxDone, workerCtxDone, wg, sent, wpc, wreq, cpc, cval,
                 results, errors, retResults, retErr, calls>>

\* return results, fmt.Errorf(...)  or  return results, nil
Return ==
  /\ mpc = "return"
  /\ retResults' = results
  /\ retErr' = IF sawErrors THEN "errors occurred" ELSE "nil"
  /\ mpc' = "done"
  /\ UNCHANGED notPA
  /\ UNCHANGED <<numItems, failing, ctxDone, workerCtxDone, wg, sent, wpc, wreq, cpc, cval,
                 results, errors, sawErrors, calls>>

ProcessArray ==
  \/ CancelCtx
  \/ \E w \in Workers : SendData(w)
  \/ SendDone
  \/ \E w \in Workers : WorkerExit(w)
  \/ \E w \in Workers : WorkerCall(w)
  \/ \E w \in Workers : SendResult(w)
  \/ \E w \in Workers : SendError(w)
  \/ \E w \in Workers : WorkerDone(w)
  \/ CollectResult
  \/ CollectError
  \/ CollectorExit
  \/ WaitDone
  \/ CheckErrors
  \/ Return

(***************************************************************************)
(* devenvutil.Backoff                                                      *)
(***************************************************************************)
BOInit ==
  /\ max \in 0..MaxRetries
  /\ failures \in 0..MaxFailures
  /\ bctxDone = FALSE
  /\ numTries = 0
  /\ fnCalls = 0
  /\ callsAfterCancel = 0
  /\ bpc = "call"
  /\ bret = "none"

BOIdle ==
  /\ max = 0
  /\ failures = 0
  /\ bctxDone = FALSE
  /\ numTries = 0
  /\ fnCalls = 0
  /\ callsAfterCancel = 0
  /\ bpc = "idle"
  /\ bret = "none"

\* t.NextBackOff() == backoff.Stop, for
\* t = WithContext(WithMaxRetries(NewConstantBackOff(d), max), ctx):
\* backOffContext stops when ctx is done, backOffTries when max == 0 or
\* max <= numTries (it counts the try otherwise).
NextBackOffStopsNoCtx(done, m, n) == m = 0 \/ m <= n
NextBackOffStopsOffByOne(done, m, n) == done \/ m < n
NextBackOffStops(done, m, n) == done \/ m = 0 \/ m <= n

\* The caller's context is cancelled while Backoff runs.
BackoffCancel ==
  /\ bpc \in {"call", "next", "select"}
  /\ ~bctxDone
  /\ bctxDone' = TRUE
  /\ UNCHANGED <<max, failures, numTries, fnCalls, callsAfterCancel, bpc, bret>>
  /\ UNCHANGED notBO

\* err := fn(); if err == nil { return nil }
BackoffCall ==
  /\ bpc = "call"
  /\ fnCalls' = fnCalls + 1
  /\ callsAfterCancel' = IF bctxDone THEN callsAfterCancel + 1 ELSE callsAfterCancel
  /\ IF fnCalls >= failures
       THEN bpc' = "done" /\ bret' = "nil"
       ELSE bpc' = "next" /\ bret' = bret
  /\ UNCHANGED <<max, failures, bctxDone, numTries>>
  /\ UNCHANGED notBO

\* waitTime := t.NextBackOff(); if waitTime == backoff.Stop { return error }
BackoffNext ==
  /\ bpc = "next"
  /\ IF NextBackOffStops(bctxDone, max, numTries)
       THEN bpc' = "done" /\ bret' = "reached maximum attempts" /\ numTries' = numTries
       ELSE bpc' = "select" /\ bret' = bret /\ numTries' = numTries + 1
  /\ UNCHANGED <<max, failures, bctxDone, fnCalls, callsAfterCancel>>
  /\ UNCHANGED notBO

\* select: case <-t.C: continue
BackoffTick ==
  /\ bpc = "select"
  /\ bpc' = "call"
  /\ UNCHANGED <<max, failures, bctxDone, numTries, fnCalls, callsAfterCancel, bret>>
  /\ UNCHANGED notBO

\* select: case <-ctx.Done(): return ctx.Err()
BackoffCtxDone ==
  /\ bpc = "select"
  /\ bctxDone
  /\ bpc' = "done"
  /\ bret' = "context canceled"
  /\ UNCHANGED <<max, failures, bctxDone, numTries, fnCalls, callsAfterCancel>>
  /\ UNCHANGED notBO

Backoff ==
  \/ BackoffCancel
  \/ BackoffCall
  \/ BackoffNext
  \/ BackoffTick
  \/ BackoffCtxDone

(***************************************************************************)
(* devenv provision, with the destroy it runs as a rollback                *)
(***************************************************************************)
Runtimes == {"kind", "loft"}

\* KindRuntime.GetConfig / LoftRuntime.GetConfig: the canonical cluster name
\* (for loft: the user name with "." replaced by "-", plus "-devenv").
ClusterName(r) == IF r = "kind" THEN "dev-environment" ELSE "user-devenv"

Contexts == {<<r, ClusterName(r)>> : r \in Runtimes}

\* Config.ParseContext: strings.Split(CurrentContext, ":"), two empty
\* strings unless there are exactly two parts.
ParseContext(c) == IF Len(c) # 2 THEN <<"", "">> ELSE <<c[1], c[2]>>

\* config.LoadConfig without an I/O error: a missing file yields the stub.
LoadConfig(file) == IF file = <<>> THEN <<"kind", "dev-environment">> ELSE file

\* kubernetesruntime.GetRuntimeFromContext: "" stands for its errors.
GetRuntimeFromContext(conf, enabled) ==
  IF conf = <<"">> THEN ""
  ELSE IF ParseContext(conf)[1] = "" THEN ""
  ELSE IF ParseContext(conf)[1] \in enabled THEN ParseContext(conf)[1]
  ELSE ""

\* destroy.NewOptions: the error it returns ("nil": none), given whether
\* reading the box and the config file worked.
DestroyNewOptions(file, enabled, ioOK) ==
  IF ~ioOK THEN "failed to read config"
  ELSE IF ParseContext(LoadConfig(file))[2] = "" THEN "invalid clusterName"
  ELSE IF GetRuntimeFromContext(LoadConfig(file), enabled) = ""
       THEN "failed to get runtime from context"
  ELSE "nil"

\* Options.Run of destroy without its guard.
DestroyRefusesNever(currentClusterName, r) == FALSE

\* The guard of destroy's Options.Run.
DestroyRefuses(currentClusterName, r) == currentClusterName # ClusterName(r)

\* The steps of snapshotRestore that can return an error.
RestoreSteps == {"deployStage", "fetchSnapshot", "verifySnapshot", "RestoreSnapshot",
                 "applyPostRestore", "cleanupPods", "runProvisionScripts",
                 "regenerateCertificates", "WaitForAllPodsToBeReady"}

PVInit ==
  /\ runtimeName \in Runtimes
  /\ enabledRuntimes \in SUBSET Runtimes
  /\ base \in BOOLEAN
  /\ configFile \in {<<>>} \cup Contexts
  /\ clusters \in SUBSET Contexts
  /\ created = <<>>
  /\ restoreErr = "none"
  /\ destroyCalls = <<>>
  /\ ppc = "checkPrereqs"
  /\ pret = "none"

PVIdle ==
  /\ runtimeName = "kind"
  /\ enabledRuntimes = {}
  /\ base = FALSE
  /\ configFile = <<>>
  /\ clusters = {}
  /\ created = <<>>
  /\ restoreErr = "none"
  /\ destroyCalls = <<>>
  /\ ppc = "idle"
  /\ pret = "none"

\* configureDockerForMac and checkPrereqs (lines 497-507)
CheckPrereqs ==
  /\ ppc = "checkPrereqs"
  /\ \E ok \in BOOLEAN :
       IF ok THEN ppc' = "getClusters" /\ pret' = pret
             ELSE ppc' = "done" /\ pret' = "pre-req check failed"
  /\ UNCHANGED <<runtimeName, enabledRuntimes, base, configFile, clusters, created,
                 restoreErr, destroyCalls>>
  /\ UNCHANGED notPV

\* What ContainerInspect of the kind node can tell: an error other than
\* not-found, or the container's State.Status.
Probes == {"error", "running", "exited", "paused"}

\* KindRuntime.Status: Unknown unless the container is found exited or
\* running (kind.go 70-111).
KindStatus(exists, probe) ==
  IF probe = "error" THEN "Unknown"
  ELSE IF ~exists THEN "Unprovisioned"
  ELSE IF probe = "exited" THEN "Stopped"
  ELSE IF probe = "running" THEN "Running"
  ELSE "Unknown"

\* Runtime.GetClusters without an error: kind reports its one cluster
\* unless its status is Unprovisioned or Unknown (kind.go 196-216), loft
\* lists the user's virtual clusters (loft.go 290-308).
ListClusters(r, cs, probe) ==
  IF r = "kind"
    THEN IF KindStatus(<<r, ClusterName(r)>> \in cs, probe) \in {"Unprovisioned", "Unknown"}
           THEN {}
           ELSE {<<r, ClusterName(r)>>}
    ELSE {c \in cs : c[1] = r}

\* GetClusters and the refusal when the devenv already exists (lines 509-521)
GetClusters ==
  /\ ppc = "getClusters"
  /\ \E ok \in BOOLEAN, probe \in Probes :
       IF ~ok THEN ppc' = "done" /\ pret' = "failed to ensure devenv didn't already exist"
       ELSE IF <<runtimeName, ClusterName(runtimeName)>> \in ListClusters(runtimeName, clusters, probe)
         THEN ppc' = "done" /\ pret' = "devenv already exists"
         ELSE ppc' = "imagePull" /\ pret' = pret
  /\ UNCHANGED <<runtimeName, enabledRuntimes, base, configFile, clusters, created,
                 restoreErr, destroyCalls>>
  /\ UNCHANGED notPV

\* ensureImagePull and generateDockerConfig (lines 523-529)
ImagePull ==
  /\ ppc = "imagePull"
  /\ \E ok \in BOOLEAN :
       IF ok THEN ppc' = "create" /\ pret' = pret
             ELSE ppc' = "done" /\ pret' = "failed to setup image pull secret"
  /\ UNCHANGED <<runtimeName, enabledRuntimes, base, configFile, clusters, created,
                 restoreErr, destroyCalls>>
  /\ UNCHANGED notPV

\* o.KubernetesRuntime.Create(ctx) (lines 531-535)
Create ==
  /\ ppc = "create"
  /\ \E ok \in BOOLEAN :
       IF ok
         THEN /\ clusters' = clusters \cup {<<runtimeName, ClusterName(runtimeName)>>}
              /\ created' = <<runtimeName, ClusterName(runtimeName)>>
              /\ ppc' = "saveConfig" /\ pret' = pret
         ELSE /\ ppc' = "done" /\ pret' = "failed to create kind cluster"
              /\ UNCHANGED <<clusters, created>>
  /\ UNCHANGED <<runtimeName, enabledRuntimes, base, configFile, restoreErr, destroyCalls>>
  /\ UNCHANGED notPV

\* The context the run persists: Name + ":" + ClusterName (line 544).
NewContext(r) == <<r, ClusterName(r)>>

\* LoadConfig, conf.CurrentContext = ..., SaveConfig (lines 537-549)
SaveConfig ==
  /\ ppc = "saveConfig"
  /\ \E ok \in BOOLEAN :
       IF ok THEN /\ configFile' = NewContext(runtimeName)
                  /\ ppc' = "kubeconfig" /\ pret' = pret
             ELSE /\ ppc' = "done" /\ pret' = "failed to save devenv config"
                  /\ UNCHANGED configFile
  /\ UNCHANGED <<runtimeName, enabledRuntimes, base, clusters, created,
                 restoreErr, destroyCalls>>
  /\ UNCHANGED notPV

\* GetKubeConfig, WriteToFile, GetKubeClientWithConfig, removeServiceImages
\* (lines 551-571)
KubeConfig ==
  /\ ppc = "kubeconfig"
  /\ \E ok \in BOOLEAN :
       IF ok THEN ppc' = (IF base THEN "deployBase" ELSE "snapshotRestore") /\ pret' = pret
             ELSE ppc' = "done" /\ pret' = "failed to write kubeconfig"
  /\ UNCHANGED <<runtimeName, enabledRuntimes, base, configFile, clusters, created,
                 restoreErr, destroyCalls>>
  /\ UNCHANGED notPV

\* err = o.snapshotRestore(ctx) (lines 573-577, and 240-361 for its steps)
SnapshotRestore ==
  /\ ppc = "snapshotRestore"
  /\ \E failed \in RestoreSteps \cup {"none"} :
       /\ restoreErr' = failed
       /\ ppc' = IF failed = "none" THEN "deployApps" ELSE "newDestroyOptions"
  /\ UNCHANGED <<runtimeName, enabledRuntimes, base, configFile, clusters, created,
                 destroyCalls, pret>>
  /\ UNCHANGED notPV

\* dopts, err2 := destroy.NewOptions(o.log); if err2 != nil { return err2 }
\* (lines 578-584)
NewDestroyOptions ==
  /\ ppc = "newDestroyOptions"
  /\ \E ioOK \in BOOLEAN :
       IF DestroyNewOptions(configFile, enabledRuntimes, ioOK) = "nil"
         THEN ppc' = "destroyRun" /\ pret' = pret
         ELSE ppc' = "done" /\ pret' = DestroyNewOptions(configFile, enabledRuntimes, ioOK)
  /\ UNCHANGED <<runtimeName, enabledRuntimes, base, configFile, clusters, created,
                 restoreErr, destroyCalls>>
  /\ UNCHANGED notPV

\* What Run returns once the cleanup destroy has run without error.
ReturnAfterCleanup(err) == "failed to provision from snapshot"

\* err2 = dopts.Run(cctx) with dopts.KubernetesRuntime = o.KubernetesRuntime
\* and dopts.CurrentClusterName = its ClusterName (lines 583-594, and
\* destroy's Options.Run): the backend's Destroy is called once, its error
\* is dropped.
DestroyRun ==
  /\ ppc = "destroyRun"
  /\ IF DestroyRefuses(ClusterName(runtimeName), runtimeName)
       THEN /\ pret' = "cannot delete clusters that don't belong to us"
            /\ UNCHANGED <<clusters, destroyCalls>>
       ELSE /\ destroyCalls' = Append(destroyCalls, <<runtimeName, ClusterName(runtimeName)>>)
            /\ \E ok \in BOOLEAN :
                 clusters' = IF ok THEN clusters \ {<<runtimeName, ClusterName(runtimeName)>>}
                                   ELSE clusters
            /\ pret' = ReturnAfterCleanup(restoreErr)
  /\ ppc' = "done"
  /\ UNCHANGED <<runtimeName, enabledRuntimes, base, configFile, created, restoreErr>>
  /\ UNCHANGED notPV

\* o.deployBaseManifests(ctx) (lines 596-604)
DeployBase ==
  /\ ppc = "deployBase"
  /\ \E ok \in BOOLEAN :
       IF ok THEN ppc' = "deployApps" /\ pret' = pret
             ELSE ppc' = "done" /\ pret' = "failed to deploy base manifests"
  /\ UNCHANGED <<runtimeName, enabledRuntimes, base, configFile, clusters, created,
                 restoreErr, destroyCalls>>
  /\ UNCHANGED notPV

\* deployapp.NewOptions and the loop over o.DeployApps, whose failures are
\* only logged (lines 606-620)
DeployApps ==
  /\ ppc = "deployApps"
  /\ \E ok \in BOOLEAN :
       pret' = IF ok THEN "nil" ELSE "failed to create deploy-app options"
  /\ ppc' = "done"
  /\ UNCHANGED <<runtimeName, enabledRuntimes, base, configFile, clusters, created,
                 restoreErr, destroyCalls>>
  /\ UNCHANGED notPV

Provision ==
  \/ CheckPrereqs
  \/ GetClusters
  \/ ImagePull
  \/ Create
  \/ SaveConfig
  \/ KubeConfig
  \/ SnapshotRestore
  \/ NewDestroyOptions
  \/ DestroyRun
  \/ DeployBase
  \/ DeployApps

(***************************************************************************)
(* devenv snapshot restore                                                 *)
(***************************************************************************)
AppNamespaces == {"bento1a", "outreach-accounts"}
SystemNamespaces == {"default", "velero"}

\* The namespaces deleteNamespaces skips (line 262).
SkippedNamespaces == {"default", "kube-system", "velero", "kube-public",
                      "kube-node-lease", "nginx-ingress", "local-path-storage"}

\* strings.EqualFold(resp, "yes") of cmdutil.GetYesOrNoInput, whose prompt
\* offers "Yes" and "No".
ToLower(resp) == CASE resp = "Yes" -> "yes" [] resp = "No" -> "no" [] OTHER -> resp
GetYesOrNoInputAlways(resp) == TRUE
GetYesOrNoInput(resp) == ToLower(resp) = "yes"

RSInit ==
  /\ snapshotName \in {"", "snap"}
  /\ liveRestore \in BOOLEAN
  /\ answer = "none"
  /\ snapshotFound \in BOOLEAN
  /\ existingRestore \in {"none", "InProgress", "Completed"}
  /\ namespaces \in {SystemNamespaces \cup a : a \in SUBSET AppNamespaces}
  /\ pending = {}
  /\ nsDeleteCalls = {}
  /\ nsFailed = FALSE
  /\ restoreDeletes = 0
  /\ restorePhase = "none"
  /\ informerSynced = FALSE
  /\ updates = <<>>
  /\ rctxDone = FALSE
  /\ rpc = "start"
  /\ rret = "none"

RSIdle ==
  /\ snapshotName = ""
  /\ liveRestore = FALSE
  /\ answer = "none"
  /\ snapshotFound = FALSE
  /\ existingRestore = "none"
  /\ namespaces = {}
  /\ pending = {}
  /\ nsDeleteCalls = {}
  /\ nsFailed = FALSE
  /\ restoreDeletes = 0
  /\ restorePhase = "none"
  /\ informerSynced = FALSE
  /\ updates = <<>>
  /\ rctxDone = FALSE
  /\ rpc = "idle"
  /\ rret = "none"

\* if snapshotName == "" { return error } (lines 337-339)
RestoreStart ==
  /\ rpc = "start"
  /\ IF snapshotName = ""
       THEN rpc' = "done" /\ rret' = "missing snapshot name"
       ELSE rpc' = (IF liveRestore THEN "prompt" ELSE "GetSnapshot") /\ rret' = rret
  /\ UNCHANGED <<snapshotName, liveRestore, answer, snapshotFound, existingRestore,
                 namespaces, pending, nsDeleteCalls, nsFailed, restoreDeletes,
                 restorePhase, informerSynced, updates, rctxDone>>
  /\ UNCHANGED notRS

\* The warning and cmdutil.GetYesOrNoInput (lines 341-351)
RestorePrompt ==
  /\ rpc = "prompt"
  /\ \E resp \in {"Yes", "No", "error"} :
       /\ answer' = resp
       /\ IF resp = "error" THEN rpc' = "done" /\ rret' = "prompt failed"
          ELSE IF ~GetYesOrNoInput(resp) THEN rpc' = "done" /\ rret' = "denied to proceed"
          ELSE rpc' = "GetSnapshot" /\ rret' = rret
  /\ UNCHANGED <<snapshotName, liveRestore, snapshotFound, existingRestore,
                 namespaces, pending, nsDeleteCalls, nsFailed, restoreDeletes,
                 restorePhase, informerSynced, updates, rctxDone>>
  /\ UNCHANGED notRS

\* o.GetSnapshot(ctx, snapshotName) (lines 353-355)
GetSnapshot ==
  /\ rpc = "GetSnapshot"
  /\ IF snapshotFound
       THEN rpc' = "deleteExistingRestore" /\ rret' = rret
       ELSE rpc' = "done" /\ rret' = "backup not found"
  /\ UNCHANGED <<snapshotName, liveRestore, answer, snapshotFound, existingRestore,
                 namespaces, pending, nsDeleteCalls, nsFailed, restoreDeletes,
                 restorePhase, informerSynced, updates, rctxDone>>
  /\ UNCHANGED notRS

\* deleteExistingRestore up to its Delete call (lines 300-310): a Get that
\* fails, for whatever reason, lets the restore go on.
DeleteExistingRestore ==
  /\ rpc = "deleteExistingRestore"
  /\ \E getOK \in BOOLEAN, delOK \in BOOLEAN :
       IF ~getOK \/ existingRestore = "none"
         THEN /\ rpc' = (IF liveRestore THEN "listNamespaces" ELSE "create")
              /\ UNCHANGED <<rret, restoreDeletes>>
       ELSE IF existingRestore = "InProgress"
         THEN /\ rpc' = "done" /\ rret' = "existing restore is in progress"
              /\ UNCHANGED restoreDeletes
       ELSE /\ restoreDeletes' = restoreDeletes + 1
            /\ IF delOK THEN rpc' = "waitRestoreDeleted" /\ rret' = rret
                        ELSE rpc' = "done" /\ rret' = "failed to delete existing restore"
  /\ UNCHANGED <<snapshotName, liveRestore, answer, snapshotFound, existingRestore,
                 namespaces, pending, nsDeleteCalls, nsFailed,
                 restorePhase, informerSynced, updates, rctxDone>>
  /\ UNCHANGED notRS

\* The poll loop of deleteExistingRestore (lines 312-327)
WaitRestoreDeleted ==
  /\ rpc = "waitRestoreDeleted"
  /\ \/ /\ rctxDone
        /\ rpc' = "done" /\ rret' = "context canceled"
        /\ UNCHANGED existingRestore
     \/ /\ existingRestore' = "none"
        /\ rpc' = (IF liveRestore THEN "listNamespaces" ELSE "create")
        /\ rret' = rret
     \/ /\ rpc' = "done" /\ rret' = "failed to get restore"
        /\ UNCHANGED existingRestore
  /\ UNCHANGED <<snapshotName, liveRestore, answer, snapshotFound,
                 namespaces, pending, nsDeleteCalls, nsFailed, restoreDeletes,
                 restorePhase, informerSynced, updates, rctxDone>>
  /\ UNCHANGED notRS

\* deleteNamespaces: the paged Namespaces().List (lines 237-255)
ListNamespaces ==
  /\ rpc = "listNamespaces"
  /\ \E ok \in BOOLEAN :
       IF ok THEN rpc' = "deleteNamespaces" /\ pending' = namespaces /\ rret' = rret
             ELSE rpc' = "done" /\ rret' = "failed to list namespaces" /\ pending' = pending
  /\ UNCHANGED <<snapshotName, liveRestore, answer, snapshotFound, existingRestore,
                 namespaces, nsDeleteCalls, nsFailed, restoreDeletes,
                 restorePhase, informerSynced, updates, rctxDone>>
  /\ UNCHANGED notRS

\* deleteNamespaces: the function ProcessArray runs on namespace n
\* (lines 257-293); it skips some, deletes the others and waits for them
\* to be gone.
DeleteNamespace(n) ==
  /\ rpc = "deleteNamespaces"
  /\ n \in pending
  /\ pending' = pending \ {n}
  /\ IF n \in SkippedNamespaces
       THEN UNCHANGED <<namespaces, nsDeleteCalls, nsFailed>>
       ELSE /\ nsDeleteCalls' = nsDeleteCalls \cup {n}
            /\ \E ok \in BOOLEAN :
                 IF ok /\ ~rctxDone
                   THEN namespaces' = namespaces \ {n} /\ nsFailed' = nsFailed
                   ELSE namespaces' = namespaces /\ nsFailed' = TRUE
  /\ UNCHANGED <<snapshotName, liveRestore, answer, snapshotFound, existingRestore,
                 restoreDeletes, restorePhase, informerSynced, updates, rctxDone, rpc, rret>>
  /\ UNCHANGED notRS

\* deleteNamespaces returns what ProcessArray returned (lines 293-297, 361-365);
\* ProcessArray can miss an error its collector has not appended yet.
DeleteNamespacesDone ==
  /\ rpc = "deleteNamespaces"
  /\ pending = {}
  /\ \E seen \in BOOLEAN :
       IF nsFailed /\ seen
         THEN rpc' = "done" /\ rret' = "errors occurred"
         ELSE rpc' = "create" /\ rret' = rret
  /\ UNCHANGED <<snapshotName, liveRestore, answer, snapshotFound, existingRestore,
                 namespaces, pending, nsDeleteCalls, nsFailed, restoreDeletes,
                 restorePhase, informerSynced, updates, rctxDone>>
  /\ UNCHANGED notRS

\* Restores().Create, then the informer is set up and started (lines 367-413)
CreateRestore ==
  /\ rpc = "create"
  /\ \E ok \in BOOLEAN :
       IF ok /\ existingRestore = "none"
         THEN rpc' = "watch" /\ restorePhase' = "New" /\ rret' = rret
         ELSE rpc' = "done" /\ rret' = "failed to create restore" /\ restorePhase' = restorePhase
  /\ UNCHANGED <<snapshotName, liveRestore, answer, snapshotFound, existingRestore,
                 namespaces, pending, nsDeleteCalls, nsFailed, restoreDeletes,
                 informerSynced, updates, rctxDone>>
  /\ UNCHANGED notRS

\* The backup engine works on the restore it was handed.  The informer has
\* no AddFunc: it reports a change only if it listed the restore before.
VeleroProgress ==
  /\ restorePhase \in {"New", "InProgress"}
  /\ \E next \in (IF restorePhase = "New" THEN {"InProgress", "FailedValidation"}
                                         ELSE {"Completed", "PartiallyFailed", "Failed"}) :
       /\ restorePhase' = next
       /\ updates' = IF informerSynced /\ rpc = "watch" THEN Append(updates, next) ELSE updates
  /\ UNCHANGED <<snapshotName, liveRestore, answer, snapshotFound, existingRestore,
                 namespaces, pending, nsDeleteCalls, nsFailed, restoreDeletes,
                 informerSynced, rctxDone, rpc, rret>>
  /\ UNCHANGED notRS

\* go restoreInformer.Run(ctx.Done()): the initial list
InformerSync ==
  /\ rpc = "watch"
  /\ ~informerSynced
  /\ ~rctxDone
  /\ informerSynced' = TRUE
  /\ UNCHANGED <<snapshotName, liveRestore, answer, snapshotFound, existingRestore,
                 namespaces, pending, nsDeleteCalls, nsFailed, restoreDeletes,
                 restorePhase, updates, rctxDone, rpc, rret>>
  /\ UNCHANGED notRS

\* case restore := <-updates (lines 418-426)
WatchUpdate ==
  /\ rpc = "watch"
  /\ updates # <<>>
  /\ updates' = Tail(updates)
  /\ IF Head(updates) \notin {"New", "InProgress"}
       THEN rpc' = "done" /\ rret' = "nil"
       ELSE rpc' = rpc /\ rret' = rret
  /\ UNCHANGED <<snapshotName, liveRestore, answer, snapshotFound, existingRestore,
                 namespaces, pending, nsDeleteCalls, nsFailed, restoreDeletes,
                 restorePhase, informerSynced, rctxDone>>
  /\ UNCHANGED notRS

\* case <-ctx.Done(): return ctx.Err() (lines 416-417)
WatchCtxDone ==
  /\ rpc = "watch"
  /\ rctxDone
  /\ rpc' = "done"
  /\ rret' = "context canceled"
  /\ UNCHANGED <<snapshotName, liveRestore, answer, snapshotFound, existingRestore,
                 namespaces, pending, nsDeleteCalls, nsFailed, restoreDeletes,
                 restorePhase, informerSynced, updates, rctxDone>>
  /\ UNCHANGED notRS

\* The process context is cancelled (an interrupt).
RestoreCancel ==
  /\ rpc \notin {"idle", "done"}
  /\ ~rctxDone
  /\ rctxDone' = TRUE
  /\ UNCHANGED <<snapshotName, liveRestore, answer, snapshotFound, existingRestore,
                 namespaces, pending, nsDeleteCalls, nsFailed, restoreDeletes,
                 restorePhase, informerSynced, updates, rpc, rret>>
  /\ UNCHANGED notRS

RestoreSnapshot ==
  \/ RestoreStart
  \/ RestorePrompt
  \/ GetSnapshot
  \/ DeleteExistingRestore
  \/ WaitRestoreDeleted
  \/ ListNamespaces
  \/ \E n \in AppNamespaces \cup SystemNamespaces : DeleteNamespace(n)
  \/ DeleteNamespacesDone
  \/ CreateRestore
  \/ VeleroProgress
  \/ InformerSync
  \/ WatchUpdate
  \/ WatchCtxDone
  \/ RestoreCancel

(***************************************************************************)
(* Snapshot staging: cmd/snapshot-uploader and provision's fetchSnapshot   *)
(***************************************************************************)
Archives == {"A", "B"}

\* The regular files of each archive.
Files(a) == CASE a = "A" -> {"f1", "f2"} [] a = "B" -> {"f2", "f3"} [] OTHER -> {}

\* base64(md5(bytes)): distinct for distinct contents; "X" are bytes that
\* are no stored archive (a damaged transfer).
Digest(a) == CASE a = "A" -> "dA" [] a = "B" -> "dB" [] OTHER -> "dX"

\* if gotMD5 != Digest { return checksum error }
ChecksumIgnored(got, want) == FALSE
ChecksumFails(got, want) == got # want

\* backoff.WithMaxRetries(..., 5) of uploadFilesFromArchive
DownloadMaxRetries == 5

SGInit ==
  /\ stager = "none"
  /\ runs = 0
  /\ confDigest = "none"
  /\ sourceObject = "none"
  /\ bucket = {}
  /\ marker = "none"
  /\ gotMD5 = "none"
  /\ downloadErr = "none"
  /\ downloadedFile = "none"
  /\ toUpload = {}
  /\ puts = 0
  /\ removes = 0
  /\ downloads = 0
  /\ retries = 0
  /\ sctxDone = FALSE
  /\ spc = "done"
  /\ sret = "none"

SGIdle ==
  /\ stager = "none"
  /\ runs = 0
  /\ confDigest = "none"
  /\ sourceObject = "none"
  /\ bucket = {}
  /\ marker = "none"
  /\ gotMD5 = "none"
  /\ downloadErr = "none"
  /\ downloadedFile = "none"
  /\ toUpload = {}
  /\ puts = 0
  /\ removes = 0
  /\ downloads = 0
  /\ retries = 0
  /\ sctxDone = FALSE
  /\ spc = "idle"
  /\ sret = "none"

\* A staging run starts: the uploader job with its CONFIG (StartFromEnv,
\* CreateClients), or fetchSnapshot with the catalog's latest item.  The
\* recorded digest need not be that of the stored archive.
StartStaging ==
  /\ spc = "done"
  /\ runs < MaxStagingRuns
  /\ runs' = runs + 1
  /\ \E who \in {"uploader", "fetch"}, a \in Archives, d \in {Digest(b) : b \in Archives},
        ok \in BOOLEAN :
       /\ stager' = who
       /\ sourceObject' = a
       /\ confDigest' = d
       /\ IF ok THEN spc' = "Prepare" /\ sret' = "none"
                ELSE spc' = "done" /\ sret' = "failed to create clients"
  /\ gotMD5' = "none" /\ downloadErr' = "none" /\ downloadedFile' = "none"
  /\ toUpload' = {} /\ puts' = 0 /\ removes' = 0 /\ downloads' = 0 /\ retries' = 0
  /\ sctxDone' = FALSE
  /\ UNCHANGED <<bucket, marker>>
  /\ UNCHANGED notSG

\* SnapshotUploader.Prepare (upload.go 91-118) and fetchSnapshot's lines
\* 84-107: with a marker of the requested digest the step is over; else
\* every object is removed, a failed removal only being logged.
Prepare ==
  /\ spc = "Prepare"
  /\ \E readOK \in BOOLEAN, kept \in SUBSET bucket, markerKept \in BOOLEAN :
       IF readOK /\ marker = confDigest
         THEN /\ spc' = (IF stager = "uploader" THEN "DownloadFile" ELSE "done")
              /\ sret' = (IF stager = "uploader" THEN sret ELSE "nil")
              /\ UNCHANGED <<bucket, marker, removes>>
         ELSE /\ bucket' = kept
              /\ marker' = (IF markerKept THEN marker ELSE "none")
              /\ removes' = removes + Cardinality(bucket) + (IF marker = "none" THEN 0 ELSE 1)
              /\ spc' = "DownloadFile"
              /\ sret' = sret
  /\ UNCHANGED <<stager, runs, confDigest, sourceObject, gotMD5, downloadErr,
                 downloadedFile, toUpload, puts, downloads, retries, sctxDone>>
  /\ UNCHANGED notSG

\* SnapshotUploader.DownloadFile (upload.go 121-167) and
\* Options.downloadArchive (112-164): copy the object to a temporary file,
\* hashing it, and compare the digest with the recorded one.
DownloadFile ==
  /\ spc = "DownloadFile"
  /\ downloads' = downloads + 1
  /\ \E ioOK \in BOOLEAN, bytes \in {sourceObject, "X"} :
       IF ~ioOK
         THEN /\ downloadErr' = "failed to write file"
              /\ gotMD5' = "none"
              /\ UNCHANGED <<downloadedFile, toUpload>>
       ELSE /\ gotMD5' = Digest(bytes)
            /\ IF ChecksumFails(Digest(bytes), confDigest)
                 THEN /\ downloadErr' = "downloaded snapshot failed checksum validation"
                      /\ UNCHANGED <<downloadedFile, toUpload>>
                 ELSE /\ downloadErr' = "nil"
                      /\ downloadedFile' = bytes
                      /\ toUpload' = Files(bytes)
  /\ spc' = "downloaded"
  /\ UNCHANGED <<stager, runs, confDigest, sourceObject, bucket, marker, puts, removes,
                 retries, sctxDone, sret>>
  /\ UNCHANGED notSG

\* StartFromEnv's step loop (upload.go 52-59): a failed step ends the run.
UploaderAfterDownload ==
  /\ spc = "downloaded"
  /\ stager = "uploader"
  /\ IF downloadErr = "nil"
       THEN spc' = "UploadArchiveContents" /\ sret' = sret
       ELSE spc' = "done" /\ sret' = downloadErr
  /\ UNCHANGED <<stager, runs, confDigest, sourceObject, bucket, marker, gotMD5,
                 downloadErr, downloadedFile, toUpload, puts, removes, downloads,
                 retries, sctxDone>>
  /\ UNCHANGED notSG

\* uploadFilesFromArchive's download loop (part_015 169-186): any error of
\* downloadArchive is retried until the backoff stops (retries used up,
\* ctx done, or the exponential backoff's elapsed-time limit).
FetchAfterDownload ==
  /\ spc = "downloaded"
  /\ stager = "fetch"
  /\ IF downloadErr = "nil"
       THEN /\ spc' = "UploadArchiveContents" /\ sret' = sret /\ retries' = retries
       ELSE \E elapsed \in BOOLEAN :
              IF elapsed \/ NextBackOffStops(sctxDone, DownloadMaxRetries, retries)
                THEN spc' = "done" /\ sret' = "reached maximum attempts" /\ retries' = retries
                ELSE spc' = "DownloadFile" /\ sret' = sret /\ retries' = retries + 1
  /\ UNCHANGED <<stager, runs, confDigest, sourceObject, bucket, marker, gotMD5,
                 downloadErr, downloadedFile, toUpload, puts, removes, downloads, sctxDone>>
  /\ UNCHANGED notSG

\* One regular file of the archive is put into the bucket (upload.go
\* 174-195, part_015 200-222).
UploadEntry(f) ==
  /\ spc = "UploadArchiveContents"
  /\ f \in toUpload
  /\ puts' = puts + 1
  /\ \E ok \in BOOLEAN :
       IF ok THEN /\ bucket' = {o \in bucket : o[1] # f} \cup {<<f, downloadedFile>>}
                  /\ toUpload' = toUpload \ {f}
                  /\ spc' = spc /\ sret' = sret
             ELSE /\ spc' = "done" /\ sret' = "failed to upload file"
                  /\ UNCHANGED <<bucket, toUpload>>
  /\ UNCHANGED <<stager, runs, confDigest, sourceObject, marker, gotMD5, downloadErr,
                 downloadedFile, removes, downloads, retries, sctxDone>>
  /\ UNCHANGED notSG

\* current.yaml is written with the recorded digest (upload.go 198-208,
\* part_015 224-234).
WriteMarker ==
  /\ spc = "UploadArchiveContents"
  /\ toUpload = {}
  /\ puts' = puts + 1
  /\ \E ok \in BOOLEAN :
       IF ok THEN marker' = confDigest /\ sret' = "nil"
             ELSE marker' = marker /\ sret' = "failed to set current snapshot"
  /\ spc' = "done"
  /\ UNCHANGED <<stager, runs, confDigest, sourceObject, bucket, gotMD5, downloadErr,
                 downloadedFile, toUpload, removes, downloads, retries, sctxDone>>
  /\ UNCHANGED notSG

\* provision's context is cancelled while fetchSnapshot runs.
StagingCancel ==
  /\ stager = "fetch"
  /\ spc \notin {"done", "idle"}
  /\ ~sctxDone
  /\ sctxDone' = TRUE
  /\ UNCHANGED <<stager, runs, confDigest, sourceObject, bucket, marker, gotMD5,
                 downloadErr, downloadedFile, toUpload, puts, removes, downloads,
                 retries, spc, sret>>
  /\ UNCHANGED notSG

Staging ==
  \/ StartStaging
  \/ Prepare
  \/ DownloadFile
  \/ UploaderAfterDownload
  \/ FetchAfterDownload
  \/ \E f \in UNION {Files(a) : a \in Archives} : UploadEntry(f)
  \/ WriteMarker
  \/ StagingCancel

(***************************************************************************)
(* devenv snapshot generate: the snapshot catalog                          *)
(***************************************************************************)
SnapshotTargets == {"T1", "T2"}
Channels == {"stable", "rc"}

EmptyLock == [k \in SnapshotTargets \X Channels |-> <<>>]

GNInit ==
  /\ catalog = EmptyLock
  /\ catalogExists = FALSE
  /\ lockfile = EmptyLock
  /\ targets = {}
  /\ generated = {}
  /\ channel = "stable"
  /\ skipUpload = FALSE
  /\ nextItem = 1
  /\ generations = 0
  /\ gpc = "done"
  /\ gret = "none"

GNIdle ==
  /\ catalog = EmptyLock
  /\ catalogExists = FALSE
  /\ lockfile = EmptyLock
  /\ targets = {}
  /\ generated = {}
  /\ channel = "stable"
  /\ skipUpload = FALSE
  /\ nextItem = 1
  /\ generations = 0
  /\ gpc = "idle"
  /\ gret = "none"

\* Generate is called; box, credentials and the AWS config are loaded
\* (lines 32-56).
StartGenerate ==
  /\ gpc = "done"
  /\ generations < MaxGenerations
  /\ generations' = generations + 1
  /\ \E ts \in SUBSET SnapshotTargets \ {{}}, c \in Channels, skip \in BOOLEAN, ok \in BOOLEAN :
       /\ targets' = ts
       /\ channel' = c
       /\ skipUpload' = skip
       /\ IF ok THEN gpc' = "GetObject" /\ gret' = "none"
                ELSE gpc' = "done" /\ gret' = "failed to get necessary permissions"
  /\ generated' = {}
  /\ lockfile' = EmptyLock
  /\ UNCHANGED <<catalog, catalogExists, nextItem>>
  /\ UNCHANGED notGN

\* The stored lockfile is fetched and decoded; if the fetch fails, for
\* whatever reason, a warning is logged and an empty lockfile is used
\* (lines 58-76).
GetLockfile ==
  /\ gpc = "GetObject"
  /\ \E fetched \in BOOLEAN, decoded \in BOOLEAN :
       IF fetched /\ catalogExists
         THEN IF decoded
                THEN lockfile' = catalog /\ gpc' = "targets" /\ gret' = gret
                ELSE lockfile' = lockfile /\ gpc' = "done"
                     /\ gret' = "failed to parse remote snapshot lockfile"
         ELSE lockfile' = EmptyLock /\ gpc' = "targets" /\ gret' = gret
  /\ UNCHANGED <<catalog, catalogExists, targets, generated, channel, skipUpload,
                 nextItem, generations>>
  /\ UNCHANGED notGN

\* append([]*box.SnapshotLockListItem{itm}, list...) (lines 97-100)
MakeLatest(itm, list) == <<itm>> \o list

\* One iteration of the loop over s.Targets, whose order is that of a Go
\* map (lines 78-101).
GenerateTarget(t) ==
  /\ gpc = "targets"
  /\ t \in targets
  /\ \E ok \in BOOLEAN :
       IF ok
         THEN /\ lockfile' = [lockfile EXCEPT ![<<t, channel>>] = MakeLatest(nextItem, @)]
              /\ generated' = generated \cup {<<t, nextItem>>}
              /\ nextItem' = nextItem + 1
              /\ targets' = targets \ {t}
              /\ UNCHANGED <<gpc, gret>>
         ELSE /\ gpc' = "done" /\ gret' = "failed to generate snapshot"
              /\ UNCHANGED <<lockfile, generated, nextItem, targets>>
  /\ UNCHANGED <<catalog, catalogExists, channel, skipUpload, generations>>
  /\ UNCHANGED notGN

\* skipUpload, or the lockfile is marshalled and put (lines 103-120)
PutLockfile ==
  /\ gpc = "targets"
  /\ targets = {}
  /\ IF skipUpload
       THEN /\ gret' = "nil"
            /\ UNCHANGED <<catalog, catalogExists>>
       ELSE \E ok \in BOOLEAN :
              IF ok THEN catalog' = lockfile /\ catalogExists' = TRUE /\ gret' = "nil"
                    ELSE catalog' = catalog /\ catalogExists' = catalogExists
                         /\ gret' = "failed to put lockfile"
  /\ gpc' = "done"
  /\ UNCHANGED <<lockfile, targets, generated, channel, skipUpload, nextItem, generations>>
  /\ UNCHANGED notGN

Generate ==
  \/ StartGenerate
  \/ GetLockfile
  \/ \E t \in SnapshotTargets : GenerateTarget(t)
  \/ PutLockfile

(***************************************************************************)
(* devenv status: the classifier                                           *)
(***************************************************************************)
InspectOutcomes == {"notfound", "error", "running", "exited"}

NoStatus == [Status |-> "none", Reason |-> "", KubernetesVersion |-> "", Version |-> "",
             err |-> FALSE]

\* The container whose state is read: the devenv's, or the legacy "k3s".
Container(c1, c2) == IF c1 = "notfound" THEN c2 ELSE c1

\* GetStatus without its test for the exited state.
GetStatusNoStopped(d, k, c1, c2, label, pods, ver, dns) ==
  LET s0 == [Status |-> "Unknown", Reason |-> "", KubernetesVersion |-> "",
             Version |-> "", err |-> FALSE]
  IN
  IF d = "nil"
    THEN [s0 EXCEPT !.Reason = "Failed to communicate with Docker (client couldn't be created)"]
  ELSE IF k = "nil" THEN [s0 EXCEPT !.Status = "Unprovisioned"]
  ELSE IF c1 = "error" THEN [s0 EXCEPT !.err = TRUE]
  ELSE IF c1 = "notfound" /\ c2 = "notfound" THEN [s0 EXCEPT !.Status = "Unprovisioned"]
  ELSE IF c1 = "notfound" /\ c2 = "error" THEN [s0 EXCEPT !.err = TRUE]
  ELSE
    LET s1 == [s0 EXCEPT !.Reason = IF c1 = "notfound" THEN "Older Kubernetes Runtime Found"
                                    ELSE "",
                         !.Version = label]
    IN
    IF pods = "error"
      THEN [s1 EXCEPT !.Status = "Degraded", !.Reason = "failed to reach kubernetes"]
    ELSE IF ver = "error"
      THEN [s1 EXCEPT !.Status = "Degraded", !.Reason = "failed to get kubernetes version"]
    ELSE IF dns = "error"
      THEN [s1 EXCEPT !.Status = "Degraded", !.Reason = "local DNS resolution is failing"]
    ELSE [s1 EXCEPT !.Status = "Running", !.KubernetesVersion = ver]

\* status.Options.GetStatus (part_005 287-367)
GetStatus(d, k, c1, c2, label, pods, ver, dns) ==
  LET s0 == [Status |-> "Unknown", Reason |-> "", KubernetesVersion |-> "",
             Version |-> "", err |-> FALSE]
  IN
  IF d = "nil"
    THEN [s0 EXCEPT !.Reason = "Failed to communicate with Docker (client couldn't be created)"]
  ELSE IF k = "nil" THEN [s0 EXCEPT !.Status = "Unprovisioned"]
  ELSE IF c1 = "error" THEN [s0 EXCEPT !.err = TRUE]
  ELSE IF c1 = "notfound" /\ c2 = "notfound" THEN [s0 EXCEPT !.Status = "Unprovisioned"]
  ELSE IF c1 = "notfound" /\ c2 = "error" THEN [s0 EXCEPT !.err = TRUE]
  ELSE
    LET s1 == [s0 EXCEPT !.Reason = IF c1 = "notfound" THEN "Older Kubernetes Runtime Found"
                                    ELSE "",
                         !.Version = label]
    IN
    IF Container(c1, c2) = "exited" THEN [s1 EXCEPT !.Status = "Stopped"]
    ELSE IF pods = "error"
      THEN [s1 EXCEPT !.Status = "Degraded", !.Reason = "failed to reach kubernetes"]
    ELSE IF ver = "error"
      THEN [s1 EXCEPT !.Status = "Degraded", !.Reason = "failed to get kubernetes version"]
    ELSE IF dns = "error"
      THEN [s1 EXCEPT !.Status = "Degraded", !.Reason = "local DNS resolution is failing"]
    ELSE [s1 EXCEPT !.Status = "Running", !.KubernetesVersion = ver]

STInit ==
  /\ dockerClient \in {"nil", "ok"}
  /\ kubeClient \in {"nil", "ok"}
  /\ inspectDevenv \in InspectOutcomes
  /\ inspectK3s \in InspectOutcomes
  /\ versionLabel \in {"", "1.18.0"}
  /\ podList \in {"ok", "error"}
  /\ serverVersion \in {"error", "v1.21.1"}
  /\ dnsCheck \in {"ok", "error"}
  /\ status = NoStatus

STIdle ==
  /\ dockerClient = "nil"
  /\ kubeClient = "nil"
  /\ inspectDevenv = "notfound"
  /\ inspectK3s = "notfound"
  /\ versionLabel = ""
  /\ podList = "ok"
  /\ serverVersion = "error"
  /\ dnsCheck = "ok"
  /\ status = [NoStatus EXCEPT !.Status = "idle"]

\* status, err := o.GetStatus(ctx)
CallGetStatus ==
  /\ status = NoStatus
  /\ status' = GetStatus(dockerClient, kubeClient, inspectDevenv, inspectK3s,
                         versionLabel, podList, serverVersion, dnsCheck)
  /\ UNCHANGED <<dockerClient, kubeClient, inspectDevenv, inspectK3s, versionLabel,
                 podList, serverVersion, dnsCheck>>
  /\ UNCHANGED notST

(***************************************************************************)
(* devenv destroy                                                          *)
(***************************************************************************)
\* The contexts a config file can hold, well formed or not.
StoredContexts ==
  {<<>>, <<"">>, <<"kind">>} \cup Contexts
    \cup {<<"kind", "other">>, <<"loft", "dev-environment">>, <<"minikube", "dev-environment">>}

DSInit ==
  /\ dsConfig \in StoredContexts
  /\ dsEnabled \in SUBSET Runtimes
  /\ dsClusters \in SUBSET Contexts
  /\ dsRemoveCache \in BOOLEAN
  /\ dsCurrent = ""
  /\ dsRuntime = ""
  /\ dsCalls = <<>>
  /\ dspc = "NewOptions"
  /\ dsret = "none"

DSIdle ==
  /\ dsConfig = <<>>
  /\ dsEnabled = {}
  /\ dsClusters = {}
  /\ dsRemoveCache = FALSE
  /\ dsCurrent = ""
  /\ dsRuntime = ""
  /\ dsCalls = <<>>
  /\ dspc = "idle"
  /\ dsret = "none"

\* o, err := NewOptions(log) of the destroy command (os.sh 217-254, 272-275)
DestroyOptions ==
  /\ dspc = "NewOptions"
  /\ \E ioOK \in BOOLEAN :
       IF DestroyNewOptions(dsConfig, dsEnabled, ioOK) = "nil"
         THEN /\ dsCurrent' = ParseContext(LoadConfig(dsConfig))[2]
              /\ dsRuntime' = GetRuntimeFromContext(LoadConfig(dsConfig), dsEnabled)
              /\ dspc' = "Run"
              /\ dsret' = dsret
         ELSE /\ dspc' = "done"
              /\ dsret' = DestroyNewOptions(dsConfig, dsEnabled, ioOK)
              /\ UNCHANGED <<dsCurrent, dsRuntime>>
  /\ UNCHANGED <<dsConfig, dsEnabled, dsClusters, dsRemoveCache, dsCalls>>
  /\ UNCHANGED notDS

\* o.Run(c.Context) of the destroy command (os.sh 284-312)
DestroyCommandRun ==
  /\ dspc = "Run"
  /\ IF DestroyRefuses(dsCurrent, dsRuntime)
       THEN /\ dsret' = "cannot delete clusters that don't belong to us"
            /\ UNCHANGED <<dsClusters, dsCalls>>
       ELSE /\ dsCalls' = Append(dsCalls, <<dsRuntime, ClusterName(dsRuntime)>>)
            /\ \E ok \in BOOLEAN :
                 dsClusters' = IF ok THEN dsClusters \ {<<dsRuntime, ClusterName(dsRuntime)>>}
                                     ELSE dsClusters
            /\ \E removed \in BOOLEAN :
                 dsret' = IF dsRemoveCache /\ dsRuntime = "kind" /\ ~removed
                            THEN "failed to remove image volume"
                            ELSE "nil"
  /\ dspc' = "done"
  /\ UNCHANGED <<dsConfig, dsEnabled, dsRemoveCache, dsCurrent, dsRuntime>>
  /\ UNCHANGED notDS

Destroy ==
  \/ DestroyOptions
  \/ DestroyCommandRun

(***************************************************************************)
(* Poll loops: WaitForDevenv and waitForMinio                              *)
(***************************************************************************)
\* if num > 15 { return error } of WaitForDevenv
DevenvMaxTries == 15

\* if attempts >= 5 { return error } of waitForMinio
MinioMaxAttempts == 5

WTInit ==
  /\ waiter \in {"WaitForDevenv", "waitForMinio"}
  /\ wtCtxDone = FALSE
  /\ wtNum = 0
  /\ wtReached = FALSE
  /\ wtpc = "start"
  /\ wtret = "none"

WTIdle ==
  /\ waiter = "none"
  /\ wtCtxDone = FALSE
  /\ wtNum = 0
  /\ wtReached = FALSE
  /\ wtpc = "idle"
  /\ wtret = "none"

\* The process context is cancelled (an interrupt).
WaitCancel ==
  /\ wtpc \in {"start", "select", "loop"}
  /\ ~wtCtxDone
  /\ wtCtxDone' = TRUE
  /\ UNCHANGED <<waiter, wtNum, wtReached, wtpc, wtret>>
  /\ UNCHANGED notWT

\* WaitForDevenv: the first GetStatus (part_021 43-50)
DevenvFirstStatus ==
  /\ waiter = "WaitForDevenv"
  /\ wtpc = "start"
  /\ \E running \in BOOLEAN :
       IF running THEN wtpc' = "done" /\ wtret' = "nil" /\ wtReached' = TRUE
                  ELSE wtpc' = "select" /\ wtret' = wtret /\ wtReached' = wtReached
  /\ UNCHANGED <<waiter, wtCtxDone, wtNum>>
  /\ UNCHANGED notWT

\* WaitForDevenv: case <-ctx.Done(): return nil (part_021 55-56)
DevenvCtxDone ==
  /\ waiter = "WaitForDevenv"
  /\ wtpc = "select"
  /\ wtCtxDone
  /\ wtpc' = "done" /\ wtret' = "nil"
  /\ UNCHANGED <<waiter, wtCtxDone, wtNum, wtReached>>
  /\ UNCHANGED notWT

\* WaitForDevenv: case <-ticker.C (part_021 57-79)
DevenvTick ==
  /\ waiter = "WaitForDevenv"
  /\ wtpc = "select"
  /\ wtNum' = wtNum + 1
  /\ \E running \in BOOLEAN :
       IF running THEN wtpc' = "done" /\ wtret' = "nil" /\ wtReached' = TRUE
       ELSE IF wtNum + 1 > DevenvMaxTries
         THEN wtpc' = "done" /\ wtReached' = wtReached
              /\ wtret' = "timed out waiting for environment to be ready"
         ELSE wtpc' = "select" /\ wtret' = wtret /\ wtReached' = wtReached
  /\ UNCHANGED <<waiter, wtCtxDone>>
  /\ UNCHANGED notWT

\* waitForMinio: one evaluation of `for ctx.Err() == nil` and of the body
\* (part_005 109-129)
MinioLoop ==
  /\ waiter = "waitForMinio"
  /\ wtpc \in {"start", "loop"}
  /\ IF wtCtxDone
       THEN wtpc' = "done" /\ wtret' = "nil" /\ UNCHANGED <<wtNum, wtReached>>
     ELSE IF wtNum >= MinioMaxAttempts
       THEN /\ wtpc' = "done" /\ wtret' = "reached maximum attempts to talk to minio"
            /\ UNCHANGED <<wtNum, wtReached>>
     ELSE \E healthy \in BOOLEAN :
            IF healthy THEN /\ wtpc' = "done" /\ wtret' = "nil" /\ wtReached' = TRUE
                            /\ wtNum' = wtNum
                       ELSE /\ wtpc' = "loop" /\ wtret' = wtret /\ wtReached' = wtReached
                            /\ wtNum' = wtNum + 1
  /\ UNCHANGED <<waiter, wtCtxDone>>
  /\ UNCHANGED notWT

Wait ==
  \/ WaitCancel
  \/ DevenvFirstStatus
  \/ DevenvCtxDone
  \/ DevenvTick
  \/ MinioLoop

(***************************************************************************)
(* devenv context                                                          *)
(***************************************************************************)
\* conf.CurrentContext = o.DesiredContext (line 138) assigns in memory:
\* the file it yields is the file as it was.  This variant writes it.
AssignContextPersisting(file, desired) == desired

AssignContext(file, desired) == file

\* config.SaveConfig: the file afterwards.  os.Create truncates the file
\* before the encoder writes it.
SaveConfigFile(outcome, file, conf) ==
  IF outcome = "ok" THEN conf
  ELSE IF outcome = "encode failed" THEN <<"">>
  ELSE file

SCInit ==
  /\ scFile \in {<<>>} \cup Contexts
  /\ scFile0 = scFile
  /\ scDesired \in {<<"">>, <<"kind">>, <<"kind", "other">>} \cup Contexts
  /\ scExisting \in SUBSET Contexts
  /\ scClusters = {}
  /\ scConf = <<"">>
  /\ scHosts = "old"
  /\ scKubeconfig = "old"
  /\ scpc = "Run"
  /\ scret = "none"

SCIdle ==
  /\ scFile = <<>>
  /\ scFile0 = <<>>
  /\ scDesired = <<"">>
  /\ scExisting = {}
  /\ scClusters = {}
  /\ scConf = <<"">>
  /\ scHosts = "old"
  /\ scKubeconfig = "old"
  /\ scpc = "idle"
  /\ scret = "none"

\* Options.Run: box, config and the clusters of the enabled runtimes, a
\* runtime that fails being skipped; without an argument the contexts are
\* displayed (lines 178-214).
ContextRun ==
  /\ scpc = "Run"
  /\ \E boxOK \in BOOLEAN, confOK \in BOOLEAN, listed \in SUBSET scExisting :
       IF ~boxOK
         THEN /\ scpc' = "done" /\ scret' = "failed to load box"
              /\ UNCHANGED <<scClusters, scConf>>
         ELSE /\ scConf' = (IF confOK THEN LoadConfig(scFile) ELSE <<"">>)
              /\ scClusters' = listed
              /\ IF scDesired = <<"">>
                   THEN scpc' = "done" /\ scret' = "nil"
                   ELSE scpc' = "lookup" /\ scret' = scret
  /\ UNCHANGED <<scFile, scFile0, scDesired, scExisting, scHosts, scKubeconfig>>
  /\ UNCHANGED notSC

\* setContext: the desired context must be one of the listed clusters
\* (lines 118-130)
ContextLookup ==
  /\ scpc = "lookup"
  /\ IF \E c \in scClusters : c[1] = ParseContext(scDesired)[1] /\ c[2] = ParseContext(scDesired)[2]
       THEN scpc' = "assign" /\ scret' = scret
       ELSE scpc' = "done" /\ scret' = "unknown context"
  /\ UNCHANGED <<scFile, scFile0, scDesired, scExisting, scClusters, scConf, scHosts,
                 scKubeconfig>>
  /\ UNCHANGED notSC

\* os.UserHomeDir and conf.CurrentContext = o.DesiredContext (lines 132-138)
ContextAssign ==
  /\ scpc = "assign"
  /\ \E ok \in BOOLEAN :
       IF ok THEN /\ scConf' = scDesired
                  /\ scFile' = AssignContext(scFile, scDesired)
                  /\ scpc' = "client" /\ scret' = scret
             ELSE /\ scpc' = "done" /\ scret' = "failed to get user's home directory"
                  /\ UNCHANGED <<scConf, scFile>>
  /\ UNCHANGED <<scFile0, scDesired, scExisting, scClusters, scHosts, scKubeconfig>>
  /\ UNCHANGED notSC

\* The Kubernetes client for the new context (lines 140-149)
ContextClient ==
  /\ scpc = "client"
  /\ \E ok \in BOOLEAN :
       IF ok THEN scpc' = "hosts" /\ scret' = scret
             ELSE scpc' = "done" /\ scret' = "failed to create kubernetes client for context"
  /\ UNCHANGED <<scFile, scFile0, scDesired, scExisting, scClusters, scConf, scHosts,
                 scKubeconfig>>
  /\ UNCHANGED notSC

\* The bundled scripts are extracted and 30-etc-hosts.sh is run
\* (lines 151-164)
ContextHosts ==
  /\ scpc = "hosts"
  /\ \E extracted \in BOOLEAN, ran \in BOOLEAN :
       IF ~extracted
         THEN scpc' = "done" /\ scret' = "failed to extract bundled shell scripts"
              /\ scHosts' = scHosts
       ELSE IF ~ran
         THEN scpc' = "done" /\ scret' = "failed to run script to setup /etc/hosts"
              /\ scHosts' \in {scHosts, "new"}
         ELSE scpc' = "kubeconfig" /\ scret' = scret /\ scHosts' = "new"
  /\ UNCHANGED <<scFile, scFile0, scDesired, scExisting, scClusters, scConf, scKubeconfig>>
  /\ UNCHANGED notSC

\* clientcmd.WriteToFile of the cluster's kubeconfig (lines 166-169)
ContextKubeconfig ==
  /\ scpc = "kubeconfig"
  /\ \E ok \in BOOLEAN :
       IF ok THEN scpc' = "save" /\ scret' = scret /\ scKubeconfig' = "new"
             ELSE scpc' = "done" /\ scret' = "failed to write kubeconfig"
                  /\ scKubeconfig' = scKubeconfig
  /\ UNCHANGED <<scFile, scFile0, scDesired, scExisting, scClusters, scConf, scHosts>>
  /\ UNCHANGED notSC

\* config.SaveConfig(ctx, conf) (lines 171-175)
ContextSave ==
  /\ scpc = "save"
  /\ \E outcome \in {"ok", "not opened", "encode failed"} :
       /\ scFile' = SaveConfigFile(outcome, scFile, scConf)
       /\ scret' = IF outcome = "ok" THEN "nil" ELSE "failed to save devenv config"
  /\ scpc' = "done"
  /\ UNCHANGED <<scFile0, scDesired, scExisting, scClusters, scConf, scHosts, scKubeconfig>>
  /\ UNCHANGED notSC

SetContext ==
  \/ ContextRun
  \/ ContextLookup
  \/ ContextAssign
  \/ ContextClient
  \/ ContextHosts
  \/ ContextKubeconfig
  \/ ContextSave

(***************************************************************************)
(* devenv tunnel                                                           *)
(***************************************************************************)
Statuses == {"Running", "Stopped", "Unprovisioned", "Degraded", "Unknown"}

LocalAppNames == {"app1", "app2"}

\* devenvutil.EnsureDevenvRunning(ctx): an error unless the status is
\* Running (devenv.go 26-41).
EnsureDevenvRunning(st) ==
  IF st = "Running" THEN "nil"
  ELSE "expected developer environment status to be Running"

\* if err2 := devenvutil.EnsureDevenvRunning(ctx); err != nil: the
\* condition tests err, the error of EnsureLocalizer, not err2.
EnsureDevenvFailed(err, err2) == err # "nil"

TNInit ==
  /\ tnStatus \in Statuses
  /\ tnLocalApps \in SUBSET LocalAppNames
  /\ tnStale \in BOOLEAN
  /\ tnHelper = "none"
  /\ tnLaunches = 0
  /\ tnErr = "nil"
  /\ tnCtxDone = FALSE
  /\ tnpc = "EnsureLocalizer"
  /\ tnret = "none"

TNIdle ==
  /\ tnStatus = "Unknown"
  /\ tnLocalApps = {}
  /\ tnStale = FALSE
  /\ tnHelper = "none"
  /\ tnLaunches = 0
  /\ tnErr = "nil"
  /\ tnCtxDone = FALSE
  /\ tnpc = "idle"
  /\ tnret = "none"

\* The command's context is cancelled (an interrupt).
TunnelCancel ==
  /\ tnpc \notin {"idle", "done"}
  /\ ~tnCtxDone
  /\ tnCtxDone' = TRUE
  /\ UNCHANGED <<tnStatus, tnLocalApps, tnStale, tnHelper, tnLaunches, tnErr, tnpc, tnret>>
  /\ UNCHANGED notTN

\* p, err := kubernetestunnelruntime.EnsureLocalizer(o.log) (lines 73-76)
TunnelEnsureLocalizer ==
  /\ tnpc = "EnsureLocalizer"
  /\ \E ok \in BOOLEAN :
       IF ok THEN tnErr' = "nil" /\ tnpc' = "EnsureDevenvRunning" /\ tnret' = tnret
             ELSE tnErr' = "failed to ensure localizer" /\ tnpc' = "done"
                  /\ tnret' = "failed to ensure localizer"
  /\ UNCHANGED <<tnStatus, tnLocalApps, tnStale, tnHelper, tnLaunches, tnCtxDone>>
  /\ UNCHANGED notTN

\* if err2 := devenvutil.EnsureDevenvRunning(ctx); err != nil { return err2 }
\* (lines 78-80)
TunnelEnsureDevenv ==
  /\ tnpc = "EnsureDevenvRunning"
  /\ IF EnsureDevenvFailed(tnErr, EnsureDevenvRunning(tnStatus))
       THEN tnpc' = "done" /\ tnret' = EnsureDevenvRunning(tnStatus)
       ELSE tnpc' = "sudo" /\ tnret' = tnret
  /\ UNCHANGED <<tnStatus, tnLocalApps, tnStale, tnHelper, tnLaunches, tnErr, tnCtxDone>>
  /\ UNCHANGED notTN

\* sudo echo (lines 82-87)
TunnelSudo ==
  /\ tnpc = "sudo"
  /\ \E ok \in BOOLEAN :
       IF ok THEN tnErr' = "nil" /\ tnret' = tnret
                  /\ tnpc' = (IF tnStale THEN "killStale" ELSE "launch")
             ELSE tnErr' = "failed to get sudo" /\ tnpc' = "done"
                  /\ tnret' = "failed to get sudo"
  /\ UNCHANGED <<tnStatus, tnLocalApps, tnStale, tnHelper, tnLaunches, tnCtxDone>>
  /\ UNCHANGED notTN

\* A stale localizer is killed and waited for (lines 89-105)
TunnelKillStale ==
  /\ tnpc = "killStale"
  /\ \E outcome \in {"killed", "no connection", "kill failed"} :
       IF outcome = "killed"
         THEN tnpc' = "launch" /\ tnret' = tnret /\ tnStale' = FALSE
         ELSE tnpc' = "done" /\ tnStale' = tnStale
              /\ tnret' = (IF outcome = "no connection"
                             THEN "connect to localizer client to kill stale connection"
                             ELSE "kill stale localizer connectin")
  /\ UNCHANGED <<tnStatus, tnLocalApps, tnHelper, tnLaunches, tnErr, tnCtxDone>>
  /\ UNCHANGED notTN

\* go func() { localizerErrCh <- RunKubernetesCommand(ctx, "", false, "sudo", "-E", p) }()
\* (lines 107-111)
TunnelLaunch ==
  /\ tnpc = "launch"
  /\ tnHelper' = "running"
  /\ tnLaunches' = tnLaunches + 1
  /\ tnpc' = "waitUp"
  /\ UNCHANGED <<tnStatus, tnLocalApps, tnStale, tnErr, tnCtxDone, tnret>>
  /\ UNCHANGED notTN

\* The helper process ends, by itself or because ctx was cancelled.
TunnelHelperExit ==
  /\ tnHelper = "running"
  /\ tnHelper' = "exited"
  /\ UNCHANGED <<tnStatus, tnLocalApps, tnStale, tnLaunches, tnErr, tnCtxDone, tnpc, tnret>>
  /\ UNCHANGED notTN

\* for ctx.Err() == nil && !localizer.IsRunning() (lines 113-116)
TunnelWaitUp ==
  /\ tnpc = "waitUp"
  /\ tnCtxDone \/ tnHelper = "running"
  /\ tnpc' = "localApps"
  /\ UNCHANGED <<tnStatus, tnLocalApps, tnStale, tnHelper, tnLaunches, tnErr, tnCtxDone, tnret>>
  /\ UNCHANGED notTN

\* One iteration of the loop over o.LocalApps, a failure being logged
\* (lines 118-126)
TunnelLocalApp(a) ==
  /\ tnpc = "localApps"
  /\ a \in tnLocalApps
  /\ tnLocalApps' = tnLocalApps \ {a}
  /\ UNCHANGED <<tnStatus, tnStale, tnHelper, tnLaunches, tnErr, tnCtxDone, tnpc, tnret>>
  /\ UNCHANGED notTN

\* return <-localizerErrCh (line 129)
TunnelReturn ==
  /\ tnpc = "localApps"
  /\ tnLocalApps = {}
  /\ tnHelper = "exited"
  /\ \E ok \in BOOLEAN :
       tnret' = IF ok /\ ~tnCtxDone THEN "nil" ELSE "localizer exited with an error"
  /\ tnpc' = "done"
  /\ UNCHANGED <<tnStatus, tnLocalApps, tnStale, tnHelper, tnLaunches, tnErr, tnCtxDone>>
  /\ UNCHANGED notTN

Tunnel ==
  \/ TunnelCancel
  \/ TunnelEnsureLocalizer
  \/ TunnelEnsureDevenv
  \/ TunnelSudo
  \/ TunnelKillStale
  \/ TunnelLaunch
  \/ TunnelHelperExit
  \/ TunnelWaitUp
  \/ \E a \in LocalAppNames : TunnelLocalApp(a)
  \/ TunnelReturn

(***************************************************************************)
(* Process entry point                                                     *)
(***************************************************************************)
MainVariants == {"devenv.go", "part_008"}

GOOSValues == {"linux", "darwin", "windows"}

\* The deferred recovery function. cmd/devenv/devenv.go 146-153 assigns
\* exitCode = 2 after the if, so on every return of main; part_008 172-176
\* only logs the panic.
RecoverExitCode(variant, code) == IF variant = "devenv.go" THEN 2 ELSE code

MNInit ==
  /\ mnVariant \in MainVariants
  /\ mnGOOS \in GOOSValues
  /\ mnNeedsUpdate \in BOOLEAN
  /\ mnResult = "none"
  /\ exitCode = 0
  /\ mnDefers = <<>>
  /\ mnPanicking = FALSE
  /\ mnCleanup = FALSE
  /\ mnExited = FALSE
  /\ mnStatus = 0
  /\ mnExec = FALSE
  /\ mnpc = "start"

MNIdle ==
  /\ mnVariant = "devenv.go"
  /\ mnGOOS = "linux"
  /\ mnNeedsUpdate = FALSE
  /\ mnResult = "none"
  /\ exitCode = 0
  /\ mnDefers = <<>>
  /\ mnPanicking = FALSE
  /\ mnCleanup = FALSE
  /\ mnExited = FALSE
  /\ mnStatus = 0
  /\ mnExec = FALSE
  /\ mnpc = "idle"

\* exitCode := 0; defer exit(); defer func() { recover ... }();
\* defer trace.EndCall(ctx)
MainStart ==
  /\ mnpc = "start"
  /\ exitCode' = 0
  /\ mnDefers' = <<"EndCall", "recover", "exit">>
  /\ mnpc' = "Before"
  /\ UNCHANGED <<mnVariant, mnGOOS, mnNeedsUpdate, mnResult, mnPanicking, mnCleanup, mnExited, mnStatus, mnExec>>
  /\ UNCHANGED notMN

\* app.Before: the state directory and the box configuration, then the
\* update gate, which sets exitCode = 5 and calls exit() itself.
MainBefore ==
  /\ mnpc = "Before"
  /\ \E ok \in BOOLEAN :
       IF ~ok
         THEN /\ mnResult' = "beforeError"
              /\ exitCode' = 1
              /\ mnpc' = "return"
              /\ mnCleanup' = mnCleanup
         ELSE IF mnNeedsUpdate
           THEN /\ mnCleanup' = (mnVariant = "devenv.go" /\ mnGOOS \in {"linux", "darwin"})
                /\ exitCode' = 5
                /\ mnpc' = "exit"
                /\ mnResult' = mnResult
           ELSE /\ mnpc' = "Action"
                /\ UNCHANGED <<mnResult, exitCode, mnCleanup>>
  /\ UNCHANGED <<mnVariant, mnGOOS, mnNeedsUpdate, mnDefers, mnPanicking, mnExited, mnStatus, mnExec>>
  /\ UNCHANGED notMN

\* The invoked command runs; if err := app.RunContext(ctx, os.Args);
\* err != nil { exitCode = 1; return }
MainRunContext ==
  /\ mnpc = "Action"
  /\ \E outcome \in {"nil", "error", "panic"} :
       /\ mnResult' = outcome
       /\ exitCode' = (IF outcome = "error" THEN 1 ELSE exitCode)
       /\ mnPanicking' = (outcome = "panic")
  /\ mnpc' = "return"
  /\ UNCHANGED <<mnVariant, mnGOOS, mnNeedsUpdate, mnDefers, mnCleanup, mnExited, mnStatus, mnExec>>
  /\ UNCHANGED notMN

\* main returns or unwinds: the deferred calls run, last registered first.
MainDefer ==
  /\ mnpc = "return"
  /\ mnDefers # <<>>
  /\ mnDefers' = Tail(mnDefers)
  /\ IF Head(mnDefers) = "recover"
       THEN /\ mnPanicking' = FALSE
            /\ exitCode' = RecoverExitCode(mnVariant, exitCode)
            /\ mnpc' = mnpc
       ELSE IF Head(mnDefers) = "exit"
         THEN mnpc' = "exit" /\ UNCHANGED <<mnPanicking, exitCode>>
         ELSE UNCHANGED <<mnPanicking, exitCode, mnpc>>
  /\ UNCHANGED <<mnVariant, mnGOOS, mnNeedsUpdate, mnResult, mnCleanup, mnExited, mnStatus, mnExec>>
  /\ UNCHANGED notMN

\* exit(): the tracer is closed, cleanup() runs, then os.Exit(exitCode).
\* A redefined cleanup replaces the process image unless syscall.Exec fails.
MainExit ==
  /\ mnpc = "exit"
  /\ \E execOk \in BOOLEAN :
       IF mnCleanup /\ execOk
         THEN mnExec' = TRUE /\ UNCHANGED <<mnExited, mnStatus>>
         ELSE mnExited' = TRUE /\ mnStatus' = exitCode /\ mnExec' = mnExec
  /\ mnpc' = "done"
  /\ UNCHANGED <<mnVariant, mnGOOS, mnNeedsUpdate, mnResult, exitCode, mnDefers, mnPanicking, mnCleanup>>
  /\ UNCHANGED notMN

Main ==
  \/ MainStart
  \/ MainBefore
  \/ MainRunContext
  \/ MainDefer
  \/ MainExit

(***************************************************************************)
(* deploy-app                                                              *)
(***************************************************************************)
TypeBootstrap == "bootstrap"

TypeLegacy == "legacy"

\* The type chosen from the two os.Stat results: legacy script first.
DetermineTypeLegacyFirst(serviceYaml, deployScript) ==
  IF deployScript THEN TypeLegacy
  ELSE IF serviceYaml THEN TypeBootstrap
  ELSE ""

\* App.determineType: service.yaml first, then scripts/deploy-to-dev.sh;
\* "" stands for the error return, which leaves a.Type unset.
DetermineType(serviceYaml, deployScript) ==
  IF serviceYaml THEN TypeBootstrap
  ELSE IF deployScript THEN TypeLegacy
  ELSE ""

DAInit ==
  /\ daLocal \in BOOLEAN
  /\ daVersion \in (IF daLocal THEN {FALSE} ELSE BOOLEAN)
  /\ daServiceYaml \in BOOLEAN
  /\ daDeployScript \in BOOLEAN
  /\ daType = ""
  /\ daJobsLogged = FALSE
  /\ daBuilds = 0
  /\ daDeploys = <<>>
  /\ dapc = "download"
  /\ daret = "none"

DAIdle ==
  /\ daLocal = FALSE
  /\ daVersion = FALSE
  /\ daServiceYaml = FALSE
  /\ daDeployScript = FALSE
  /\ daType = ""
  /\ daJobsLogged = FALSE
  /\ daBuilds = 0
  /\ daDeploys = <<>>
  /\ dapc = "idle"
  /\ daret = "none"

\* if repositoryPath == "" { downloadRepository } (lines 291-305)
DeployDownload ==
  /\ dapc = "download"
  /\ \E ok \in BOOLEAN :
       IF daLocal \/ ok
         THEN dapc' = "determineType" /\ daret' = daret
         ELSE dapc' = "done" /\ daret' = "git clone failed"
  /\ UNCHANGED <<daLocal, daVersion, daServiceYaml, daDeployScript, daType,
                 daJobsLogged, daBuilds, daDeploys>>
  /\ UNCHANGED notDA

\* The type is determined from the checkout (lines 307-313)
DeployDetermineType ==
  /\ dapc = "determineType"
  /\ IF DetermineType(daServiceYaml, daDeployScript) = ""
       THEN /\ dapc' = "done"
            /\ daret' = "failed to determine application type"
            /\ daType' = daType
       ELSE /\ dapc' = "deleteJobs"
            /\ daType' = DetermineType(daServiceYaml, daDeployScript)
            /\ daret' = daret
  /\ UNCHANGED <<daLocal, daVersion, daServiceYaml, daDeployScript,
                 daJobsLogged, daBuilds, daDeploys>>
  /\ UNCHANGED notDA

\* The db-migration jobs are deleted; a failure is logged (lines 315-344)
DeployDeleteJobs ==
  /\ dapc = "deleteJobs"
  /\ \E ok \in BOOLEAN : daJobsLogged' = ~ok
  /\ dapc' = "deploy"
  /\ UNCHANGED <<daLocal, daVersion, daServiceYaml, daDeployScript, daType,
                 daBuilds, daDeploys, daret>>
  /\ UNCHANGED notDA

\* deployBootstrap (lines 155-246): service.yaml is read, the image is built
\* for a version or a local path, the deploy script runs, the pods of a
\* built image are deleted.
DeployBootstrap ==
  /\ dapc = "deploy"
  /\ daType = TypeBootstrap
  /\ dapc' = "done"
  /\ \E readOK \in BOOLEAN, buildOK \in BOOLEAN, runOK \in BOOLEAN, podsOK \in BOOLEAN :
       IF ~readOK
         THEN daret' = "failed to read service.yaml" /\ UNCHANGED <<daBuilds, daDeploys>>
       ELSE IF (daVersion \/ daLocal) /\ ~buildOK
         THEN /\ daret' = "failed to build image"
              /\ daBuilds' = daBuilds + 1 /\ UNCHANGED daDeploys
       ELSE /\ daBuilds' = (IF daVersion \/ daLocal THEN daBuilds + 1 ELSE daBuilds)
            /\ daDeploys' = Append(daDeploys, TypeBootstrap)
            /\ daret' = (IF ~runOK THEN "failed to deploy changes"
                         ELSE IF (daVersion \/ daLocal) /\ ~podsOK THEN "failed to delete pods"
                         ELSE "nil")
  /\ UNCHANGED <<daLocal, daVersion, daServiceYaml, daDeployScript, daType, daJobsLogged>>
  /\ UNCHANGED notDA

\* deployLegacy (lines 151-153): ./scripts/deploy-to-dev.sh update
DeployLegacy ==
  /\ dapc = "deploy"
  /\ daType = TypeLegacy
  /\ dapc' = "done"
  /\ daDeploys' = Append(daDeploys, TypeLegacy)
  /\ \E runOK \in BOOLEAN : daret' = (IF runOK THEN "nil" ELSE "deploy script failed")
  /\ UNCHANGED <<daLocal, daVersion, daServiceYaml, daDeployScript, daType,
                 daJobsLogged, daBuilds>>
  /\ UNCHANGED notDA

\* The switch at lines 346-351 returns for both types DetermineType can
\* give, so the closing return of "unknown application type" (line 353) is
\* never reached.
Deploy ==
  \/ DeployDownload
  \/ DeployDetermineType
  \/ DeployDeleteJobs
  \/ DeployBootstrap
  \/ DeployLegacy

(***************************************************************************)
(* devenv local-app                                                        *)
(***************************************************************************)
DefaultNamespace == "bento1a"

LocalAppArgs == {"accounts", "outreach-accounts", "flagship", "flagship-server",
                 "flagship-client", "orca", "client", "outlook", "public-calendar", "foo"}

\* Options.handleSpecialCases left out: no name is special.
HandleNoSpecialCases(o) == o

\* Options.handleSpecialCases: the switch on o.AppName.
HandleSpecialCases(o) ==
  CASE o.AppName \in {"accounts", "outreach-accounts"} ->
         [o EXCEPT !.Namespace = "outreach-accounts", !.AppName = "outreach-accounts"]
    [] o.AppName \in {"flagship", "flagship-server"} ->
         [o EXCEPT !.Namespace = DefaultNamespace, !.AppName = "flagship-server"]
    [] o.AppName = "flagship-client" ->
         [o EXCEPT !.AppName = "clientron", !.Ports = {<<4202, 8080>>}]
    [] o.AppName \in {"orca", "client"} ->
         [o EXCEPT !.Namespace = DefaultNamespace, !.AppName = "orca-proxy",
                   !.CreateManifests = "shell/local-app/orca/manifests.yaml",
                   !.OriginalManifests = "jsonnet/services/flagship/orca.jsonnet"]
    [] o.AppName = "outlook" ->
         [o EXCEPT !.Namespace = DefaultNamespace, !.AppName = "outlook-proxy",
                   !.CreateManifests = "shell/local-app/outlook/manifests.yaml"]
    [] o.AppName = "public-calendar" ->
         [o EXCEPT !.Namespace = "clicktrack--bento1a", !.AppName = "calclient-devproxy",
                   !.CreateManifests = "shell/local-app/public-calendar/manifests.jsonnet",
                   !.OriginalManifests = "shell/local-app/public-calendar/original.jsonnet"]
    [] OTHER -> o

\* if o.Namespace == "" { o.Namespace = fmt.Sprintf("%s--bento1a", o.AppName) }
DefaultTheNamespace(o) ==
  IF o.Namespace = "" THEN [o EXCEPT !.Namespace = o.AppName \o "--bento1a"] ELSE o

\* errors.Wrap(err, message) of github.com/pkg/errors: nil for a nil err.
Wrap(err, message) == IF err = "nil" THEN "nil" ELSE message

LAInit ==
  /\ laArg \in LocalAppArgs
  /\ laNsFlag \in {"", "custom"}
  /\ laNotBootstrap \in BOOLEAN
  /\ \E stop \in BOOLEAN :
       laOpts = [AppName |-> "", Namespace |-> laNsFlag, CreateManifests |-> "",
                 OriginalManifests |-> "", Stop |-> stop, Ports |-> {}]
  /\ laEnv \in {"ready", "no localizer", "devenv stopped", "no tunnel"}
  /\ laErr = "nil"
  /\ laKubecfg = <<>>
  /\ laExposes = 0
  /\ lapc = "Action"
  /\ laret = "none"

LAIdle ==
  /\ laArg = ""
  /\ laNsFlag = ""
  /\ laNotBootstrap = FALSE
  /\ laOpts = [AppName |-> "", Namespace |-> "", CreateManifests |-> "",
               OriginalManifests |-> "", Stop |-> FALSE, Ports |-> {}]
  /\ laEnv = "ready"
  /\ laErr = "nil"
  /\ laKubecfg = <<>>
  /\ laExposes = 0
  /\ lapc = "idle"
  /\ laret = "none"

\* The command's Action: the argument, the --port values and
\* --not-bootstrap are stored in o (lines 140-189)
LocalAppAction ==
  /\ lapc = "Action"
  /\ \E ports \in {"none", "one", "malformed"} :
       IF ports = "malformed"
         THEN /\ lapc' = "done" /\ laret' = "expected format srcPort:destPort"
              /\ laOpts' = [laOpts EXCEPT !.AppName = laArg]
         ELSE /\ lapc' = "handleSpecialCases" /\ laret' = laret
              /\ laOpts' = [laOpts EXCEPT
                   !.AppName = laArg,
                   !.Ports = (IF ports = "one" THEN {<<8080, 8080>>} ELSE {}),
                   !.Namespace = (IF laNotBootstrap THEN DefaultNamespace ELSE laOpts.Namespace)]
  /\ UNCHANGED <<laArg, laNsFlag, laNotBootstrap, laEnv, laErr, laKubecfg, laExposes>>
  /\ UNCHANGED notLA

\* o.handleSpecialCases() and the default namespace (lines 227-231)
LocalAppSpecialCases ==
  /\ lapc = "handleSpecialCases"
  /\ laOpts' = DefaultTheNamespace(HandleSpecialCases(laOpts))
  /\ lapc' = "ensure"
  /\ UNCHANGED <<laArg, laNsFlag, laNotBootstrap, laEnv, laErr, laKubecfg, laExposes, laret>>
  /\ UNCHANGED notLA

\* EnsureLocalizer, EnsureDevenvRunning, localizer.IsRunning (lines 233-246)
LocalAppEnsure ==
  /\ lapc = "ensure"
  /\ IF laEnv = "no localizer"
       THEN lapc' = "done" /\ laret' = "failed to ensure localizer" /\ laErr' = laret'
     ELSE IF laEnv = "devenv stopped"
       THEN lapc' = "done" /\ laret' = EnsureDevenvRunning("Stopped") /\ laErr' = laret'
     ELSE IF laEnv = "no tunnel"
       THEN /\ lapc' = "done" /\ laErr' = "nil"
            /\ laret' = "failed to find running kubernetes tunnel runtime"
     ELSE lapc' = "extract" /\ laret' = laret /\ laErr' = "nil"
  /\ UNCHANGED <<laArg, laNsFlag, laNotBootstrap, laOpts, laEnv, laKubecfg, laExposes>>
  /\ UNCHANGED notLA

\* dir, err := embed.ExtractAllToTempDir(ctx) (lines 261-268)
LocalAppExtract ==
  /\ lapc = "extract"
  /\ \E ok \in BOOLEAN :
       IF ok THEN laErr' = "nil" /\ lapc' = "createManifests" /\ laret' = laret
             ELSE laErr' = "failed to extract" /\ lapc' = "done" /\ laret' = "failed to extract"
  /\ UNCHANGED <<laArg, laNsFlag, laNotBootstrap, laOpts, laEnv, laKubecfg, laExposes>>
  /\ UNCHANGED notLA

\* The prerequisite manifests are applied unless stopping; on a failure
\* err2, Run returns errors.Wrap(err, ...) (lines 270-279)
LocalAppCreateManifests ==
  /\ lapc = "createManifests"
  /\ IF ~laOpts.Stop /\ laOpts.CreateManifests # ""
       THEN \E ok \in BOOLEAN :
              /\ laKubecfg' = Append(laKubecfg, <<"update", laOpts.CreateManifests, ok>>)
              /\ IF ok THEN lapc' = "expose" /\ laret' = laret
                       ELSE /\ lapc' = "done"
                            /\ laret' = Wrap(laErr, "failed to create bundled manifests")
       ELSE lapc' = "expose" /\ UNCHANGED <<laKubecfg, laret>>
  /\ UNCHANGED <<laArg, laNsFlag, laNotBootstrap, laOpts, laEnv, laErr, laExposes>>
  /\ UNCHANGED notLA

\* The helper's expose command (lines 281-285)
LocalAppExpose ==
  /\ lapc = "expose"
  /\ laExposes' = laExposes + 1
  /\ \E ok \in BOOLEAN :
       IF ok THEN laErr' = "nil" /\ lapc' = "removeManifests" /\ laret' = laret
             ELSE laErr' = "expose failed" /\ lapc' = "done" /\ laret' = "expose failed"
  /\ UNCHANGED <<laArg, laNsFlag, laNotBootstrap, laOpts, laEnv, laKubecfg>>
  /\ UNCHANGED notLA

\* On --stop the manifests are deleted and the original ones re-applied,
\* failures being logged; return nil (lines 287-320)
LocalAppRemoveManifests ==
  /\ lapc = "removeManifests"
  /\ IF laOpts.Stop /\ laOpts.CreateManifests # ""
       THEN \E delOK \in BOOLEAN, updOK \in BOOLEAN :
              laKubecfg' =
                IF laOpts.OriginalManifests # ""
                  THEN laKubecfg \o <<<<"delete", laOpts.CreateManifests, delOK>>,
                                      <<"update", laOpts.OriginalManifests, updOK>>>>
                  ELSE Append(laKubecfg, <<"delete", laOpts.CreateManifests, delOK>>)
       ELSE UNCHANGED laKubecfg
  /\ lapc' = "done"
  /\ laret' = "nil"
  /\ UNCHANGED <<laArg, laNsFlag, laNotBootstrap, laOpts, laEnv, laErr, laExposes>>
  /\ UNCHANGED notLA

LocalApp ==
  \/ LocalAppAction
  \/ LocalAppSpecialCases
  \/ LocalAppEnsure
  \/ LocalAppExtract
  \/ LocalAppCreateManifests
  \/ LocalAppExpose
  \/ LocalAppRemoveManifests

(***************************************************************************)
(* Config.ParseContext on character strings                                *)
(***************************************************************************)
MaxContextLen == 5

ContextChars == {"a", "b", ":"}

ContextStrings == UNION {[1..n -> ContextChars] : n \in 0..MaxContextLen}

\* strings.Split(s, sep) for a one-character sep: the pieces between the
\* separators, one more than there are separators.
RECURSIVE Split(_, _)
Split(s, sep) ==
  IF s = <<>> THEN <<<<>>>>
  ELSE IF Head(s) = sep THEN <<<<>>>> \o Split(Tail(s), sep)
  ELSE LET rest == Split(Tail(s), sep)
       IN  <<<<Head(s)>> \o rest[1]>> \o Tail(rest)

\* strings.SplitN(s, sep, 2): a split at the first separator only.
RECURSIVE SplitFirst(_, _)
SplitFirst(s, sep) ==
  IF s = <<>> THEN <<<<>>>>
  ELSE IF Head(s) = sep THEN <<<<>>, Tail(s)>>
  ELSE LET rest == SplitFirst(Tail(s), sep)
       IN  <<<<Head(s)>> \o rest[1]>> \o Tail(rest)

\* ParseContext, had it split at the first ':' only.
ParseContextFirstColon(s) ==
  IF Len(SplitFirst(s, ":")) # 2 THEN <<<<>>, <<>>>>
  ELSE <<SplitFirst(s, ":")[1], SplitFirst(s, ":")[2]>>

\* Config.ParseContext on the string itself.
ParseContextString(s) ==
  IF Len(Split(s, ":")) # 2 THEN <<<<>>, <<>>>>
  ELSE <<Split(s, ":")[1], Split(s, ":")[2]>>

PXInit ==
  /\ pxInput \in ContextStrings
  /\ pxRuntime = <<>>
  /\ pxName = <<>>
  /\ pxpc = "call"

PXIdle ==
  /\ pxInput = <<>>
  /\ pxRuntime = <<>>
  /\ pxName = <<>>
  /\ pxpc = "idle"

\* runtime, name := c.ParseContext()
CallParseContext ==
  /\ pxpc = "call"
  /\ pxRuntime' = ParseContextString(pxInput)[1]
  /\ pxName' = ParseContextString(pxInput)[2]
  /\ pxpc' = "done"
  /\ UNCHANGED pxInput
  /\ UNCHANGED notPX

(***************************************************************************)
(* devenvutil.WaitForAllPodsToBeReady                                      *)
(***************************************************************************)
MaxPolls == 3

PodNames == {"app-0", "strimzi-topic-operator-0"}

\* Ready; not ready yet; never ready; a succeeded pod of a Job.
PodConditions == {"ready", "starting", "crashloop", "succeeded job"}

\* FindUnreadyPods: the pods that are neither succeeded Job pods, nor
\* strimzi-topic-operator pods, nor ready.
FindUnreadyPods(pods) ==
  {p \in DOMAIN pods : /\ pods[p] # "succeeded job"
                       /\ p # "strimzi-topic-operator-0"
                       /\ pods[p] # "ready"}

WPInit ==
  /\ wpPods \in [PodNames -> PodConditions]
  /\ wpCtxDone = FALSE
  /\ wpPolls = 0
  /\ wpUnready = {}
  /\ wppc = "loop"
  /\ wpret = "none"

WPIdle ==
  /\ wpPods = [p \in PodNames |-> "ready"]
  /\ wpCtxDone = FALSE
  /\ wpPolls = 0
  /\ wpUnready = {}
  /\ wppc = "idle"
  /\ wpret = "none"

\* The caller's context is cancelled.
WaitPodsCancel ==
  /\ wppc \in {"loop", "sleep"}
  /\ ~wpCtxDone
  /\ wpCtxDone' = TRUE
  /\ UNCHANGED <<wpPods, wpPolls, wpUnready, wppc, wpret>>
  /\ UNCHANGED notWP

\* A starting pod passes its readiness checks.
PodBecomesReady(p) ==
  /\ wppc \in {"loop", "sleep"}
  /\ wpPods[p] = "starting"
  /\ wpPods' = [wpPods EXCEPT ![p] = "ready"]
  /\ UNCHANGED <<wpCtxDone, wpPolls, wpUnready, wppc, wpret>>
  /\ UNCHANGED notWP

\* for ctx.Err() == nil { unreadyPods, err := FindUnreadyPods(ctx, k);
\* if err == nil { break } ... (lines 218-226)
WaitPodsPoll ==
  /\ wppc = "loop"
  /\ IF wpCtxDone
       THEN wppc' = "return" /\ UNCHANGED <<wpPolls, wpUnready>>
       ELSE /\ wpPolls' = (IF wpPolls < MaxPolls THEN wpPolls + 1 ELSE wpPolls)
            /\ \E listOK \in BOOLEAN :
                 IF listOK
                   THEN /\ wpUnready' = FindUnreadyPods(wpPods)
                        /\ wppc' = (IF FindUnreadyPods(wpPods) = {} THEN "return" ELSE "sleep")
                   ELSE wpUnready' = {} /\ wppc' = "sleep"
  /\ UNCHANGED <<wpPods, wpCtxDone, wpret>>
  /\ UNCHANGED notWP

\* async.Sleep(ctx, 30*time.Second) (line 228)
WaitPodsSleep ==
  /\ wppc = "sleep"
  /\ wppc' = "loop"
  /\ UNCHANGED <<wpPods, wpCtxDone, wpPolls, wpUnready, wpret>>
  /\ UNCHANGED notWP

\* return ctx.Err() (line 231)
WaitPodsReturn ==
  /\ wppc = "return"
  /\ wppc' = "done"
  /\ wpret' = (IF wpCtxDone THEN "context canceled" ELSE "nil")
  /\ UNCHANGED <<wpPods, wpCtxDone, wpPolls, wpUnready>>
  /\ UNCHANGED notWP

WaitForAllPodsToBeReady ==
  \/ WaitPodsCancel
  \/ \E p \in PodNames : PodBecomesReady(p)
  \/ WaitPodsPoll
  \/ WaitPodsSleep
  \/ WaitPodsReturn

(***************************************************************************)
(* LoftRuntime.GetConfig, Status, Create, Destroy and lr.clusterName       *)
(***************************************************************************)
LoftCallers == {1, 2}

LoftMethods == {"GetConfig", "Status", "Create", "Destroy"}

\* strings.ReplaceAll(u.Username, ".", "-") + "-devenv" for the user
\* jane.doe, or for "unknown" when user.Current() fails.
DeriveClusterName(userOK) == IF userOK THEN "jane-doe-devenv" ELSE "unknown-devenv"

\* What an unsynchronised read of the string can give while another
\* goroutine assigns it: the old value, the new one, or a torn header.
RacyRead(old) == {old, DeriveClusterName(TRUE), DeriveClusterName(FALSE), "torn"}

LFInit ==
  /\ lfClusterName = ""
  /\ lfMu = 0
  /\ lfOp \in [LoftCallers -> LoftMethods]
  /\ lfpc = [t \in LoftCallers |-> "start"]
  /\ lfSeen = [t \in LoftCallers |-> "none"]
  /\ lfRaced = FALSE

LFIdle ==
  /\ lfClusterName = ""
  /\ lfMu = 0
  /\ lfOp = [t \in LoftCallers |-> "GetConfig"]
  /\ lfpc = [t \in LoftCallers |-> "idle"]
  /\ lfSeen = [t \in LoftCallers |-> "none"]
  /\ lfRaced = FALSE

\* Some other caller is between the test and the assignment of
\* lr.clusterName (lines 141-149).
LoftWriterActive(t) == \E u \in LoftCallers \ {t} : lfpc[u] = "assign"

\* GetConfig: lr.clusterNameMu.Lock() (line 140)
LoftLock(t) ==
  /\ lfOp[t] = "GetConfig"
  /\ lfpc[t] = "start"
  /\ lfMu = 0
  /\ lfMu' = t
  /\ lfpc' = [lfpc EXCEPT ![t] = "test"]
  /\ UNCHANGED <<lfClusterName, lfOp, lfSeen, lfRaced>>
  /\ UNCHANGED notLF

\* GetConfig: if lr.clusterName == "" (line 141)
LoftTest(t) ==
  /\ lfpc[t] = "test"
  /\ lfpc' = [lfpc EXCEPT ![t] = IF lfClusterName = "" THEN "assign" ELSE "unlock"]
  /\ UNCHANGED <<lfClusterName, lfMu, lfOp, lfSeen, lfRaced>>
  /\ UNCHANGED notLF

\* GetConfig: lr.clusterName = ... (lines 142-149)
LoftAssign(t) ==
  /\ lfpc[t] = "assign"
  /\ \E userOK \in BOOLEAN : lfClusterName' = DeriveClusterName(userOK)
  /\ lfpc' = [lfpc EXCEPT ![t] = "unlock"]
  /\ UNCHANGED <<lfMu, lfOp, lfSeen, lfRaced>>
  /\ UNCHANGED notLF

\* GetConfig: lr.clusterNameMu.Unlock() (line 151)
LoftUnlock(t) ==
  /\ lfpc[t] = "unlock"
  /\ lfMu' = 0
  /\ lfpc' = [lfpc EXCEPT ![t] = "read"]
  /\ UNCHANGED <<lfClusterName, lfOp, lfSeen, lfRaced>>
  /\ UNCHANGED notLF

\* Status, Create, Destroy: ensureLoft and what precedes the use of
\* lr.clusterName; no lock is taken (lines 160-180, 188-200, 217-222)
LoftPrepare(t) ==
  /\ lfOp[t] # "GetConfig"
  /\ lfpc[t] = "start"
  /\ \E ok \in BOOLEAN :
       lfpc' = [lfpc EXCEPT ![t] = IF ok THEN "read" ELSE "done"]
  /\ UNCHANGED <<lfClusterName, lfMu, lfOp, lfSeen, lfRaced>>
  /\ UNCHANGED notLF

\* The read of lr.clusterName for the method's own use: ClusterName:
\* lr.clusterName (line 156), strings.Contains(out, lr.clusterName)
\* (line 181), the vcluster argument (lines 203 and 223).
LoftRead(t) ==
  /\ lfpc[t] = "read"
  /\ IF LoftWriterActive(t)
       THEN /\ lfRaced' = TRUE
            /\ \E v \in RacyRead(lfClusterName) : lfSeen' = [lfSeen EXCEPT ![t] = v]
       ELSE /\ lfRaced' = lfRaced
            /\ lfSeen' = [lfSeen EXCEPT ![t] = lfClusterName]
  /\ lfpc' = [lfpc EXCEPT ![t] = "done"]
  /\ UNCHANGED <<lfClusterName, lfMu, lfOp>>
  /\ UNCHANGED notLF

Loft ==
  \/ \E t \in LoftCallers : LoftLock(t)
  \/ \E t \in LoftCallers : LoftTest(t)
  \/ \E t \in LoftCallers : LoftAssign(t)
  \/ \E t \in LoftCallers : LoftUnlock(t)
  \/ \E t \in LoftCallers : LoftPrepare(t)
  \/ \E t \in LoftCallers : LoftRead(t)

(***************************************************************************)
(* Specifications, one per subsystem.                                      *)
(***************************************************************************)
InitProcessArray == PAInit /\ BOIdle /\ PVIdle /\ RSIdle /\ SGIdle /\ GNIdle /\ STIdle /\ DSIdle /\ WTIdle /\ SCIdle /\ TNIdle /\ MNIdle /\ DAIdle /\ LAIdle /\ PXIdle /\ WPIdle /\ LFIdle

SpecProcessArray == InitProcessArray /\ [][ProcessArray]_vars

\* The steps of the goroutine that called ProcessArray.
ProcessArrayCaller ==
  \/ \E w \in Workers : SendData(w)
  \/ SendDone
  \/ WaitDone
  \/ CheckErrors
  \/ Return

\* The steps of worker goroutine w.
ProcessArrayWorker(w) ==
  \/ WorkerExit(w)
  \/ WorkerCall(w)
  \/ SendResult(w)
  \/ SendError(w)
  \/ WorkerDone(w)

\* The steps of the collector goroutine.
ProcessArrayCollector ==
  \/ CollectResult
  \/ CollectError
  \/ CollectorExit

\* ProcessArray under the Go scheduler: a goroutine that can take a step
\* takes one eventually, and fn returns.  Cancelling ctx is the caller's
\* choice and is under no fairness.
SpecProcessArrayFair ==
  /\ InitProcessArray
  /\ [][ProcessArray]_vars
  /\ WF_vars(ProcessArrayCaller)
  /\ \A w \in Workers : WF_vars(ProcessArrayWorker(w))
  /\ WF_vars(ProcessArrayCollector)

InitBackoff == BOInit /\ PAIdle /\ PVIdle /\ RSIdle /\ SGIdle /\ GNIdle /\ STIdle /\ DSIdle /\ WTIdle /\ SCIdle /\ TNIdle /\ MNIdle /\ DAIdle /\ LAIdle /\ PXIdle /\ WPIdle /\ LFIdle

SpecBackoff == InitBackoff /\ [][Backoff]_vars

InitProvision == PVInit /\ PAIdle /\ BOIdle /\ RSIdle /\ SGIdle /\ GNIdle /\ STIdle /\ DSIdle /\ WTIdle /\ SCIdle /\ TNIdle /\ MNIdle /\ DAIdle /\ LAIdle /\ PXIdle /\ WPIdle /\ LFIdle

SpecProvision == InitProvision /\ [][Provision]_vars

InitRestore == RSInit /\ PAIdle /\ BOIdle /\ PVIdle /\ SGIdle /\ GNIdle /\ STIdle /\ DSIdle /\ WTIdle /\ SCIdle /\ TNIdle /\ MNIdle /\ DAIdle /\ LAIdle /\ PXIdle /\ WPIdle /\ LFIdle

SpecRestore == InitRestore /\ [][RestoreSnapshot]_vars

\* The steps of the goroutine running RestoreSnapshot.
RestoreCaller ==
  \/ RestoreStart
  \/ RestorePrompt
  \/ GetSnapshot
  \/ DeleteExistingRestore
  \/ WaitRestoreDeleted
  \/ ListNamespaces
  \/ \E n \in AppNamespaces \cup SystemNamespaces : DeleteNamespace(n)
  \/ DeleteNamespacesDone
  \/ CreateRestore
  \/ WatchUpdate
  \/ WatchCtxDone

\* RestoreSnapshot under fair scheduling: the command, the backup engine
\* and the informer each go on while they can.  An interrupt is under no
\* fairness.
SpecRestoreFair ==
  /\ InitRestore
  /\ [][RestoreSnapshot]_vars
  /\ WF_vars(RestoreCaller)
  /\ WF_vars(VeleroProgress)
  /\ WF_vars(InformerSync)

InitStaging == SGInit /\ PAIdle /\ BOIdle /\ PVIdle /\ RSIdle /\ GNIdle /\ STIdle /\ DSIdle /\ WTIdle /\ SCIdle /\ TNIdle /\ MNIdle /\ DAIdle /\ LAIdle /\ PXIdle /\ WPIdle /\ LFIdle

SpecStaging == InitStaging /\ [][Staging]_vars

InitGenerate == GNInit /\ PAIdle /\ BOIdle /\ PVIdle /\ RSIdle /\ SGIdle /\ STIdle /\ DSIdle /\ WTIdle /\ SCIdle /\ TNIdle /\ MNIdle /\ DAIdle /\ LAIdle /\ PXIdle /\ WPIdle /\ LFIdle

SpecGenerate == InitGenerate /\ [][Generate]_vars

InitStatus == STInit /\ PAIdle /\ BOIdle /\ PVIdle /\ RSIdle /\ SGIdle /\ GNIdle /\ DSIdle /\ WTIdle /\ SCIdle /\ TNIdle /\ MNIdle /\ DAIdle /\ LAIdle /\ PXIdle /\ WPIdle /\ LFIdle

SpecStatus == InitStatus /\ [][CallGetStatus]_vars

InitDestroy == DSInit /\ PAIdle /\ BOIdle /\ PVIdle /\ RSIdle /\ SGIdle /\ GNIdle /\ STIdle /\ WTIdle /\ SCIdle /\ TNIdle /\ MNIdle /\ DAIdle /\ LAIdle /\ PXIdle /\ WPIdle /\ LFIdle

SpecDestroy == InitDestroy /\ [][Destroy]_vars

InitWait == WTInit /\ PAIdle /\ BOIdle /\ PVIdle /\ RSIdle /\ SGIdle /\ GNIdle /\ STIdle /\ DSIdle /\ SCIdle /\ TNIdle /\ MNIdle /\ DAIdle /\ LAIdle /\ PXIdle /\ WPIdle /\ LFIdle

SpecWait == InitWait /\ [][Wait]_vars

InitSetContext == SCInit /\ PAIdle /\ BOIdle /\ PVIdle /\ RSIdle /\ SGIdle /\ GNIdle /\ STIdle /\ DSIdle /\ WTIdle /\ TNIdle /\ MNIdle /\ DAIdle /\ LAIdle /\ PXIdle /\ WPIdle /\ LFIdle

SpecSetContext == InitSetContext /\ [][SetContext]_vars

InitTunnel == TNInit /\ PAIdle /\ BOIdle /\ PVIdle /\ RSIdle /\ SGIdle /\ GNIdle /\ STIdle /\ DSIdle /\ WTIdle /\ SCIdle /\ MNIdle /\ DAIdle /\ LAIdle /\ PXIdle /\ WPIdle /\ LFIdle

SpecTunnel == InitTunnel /\ [][Tunnel]_vars

InitMain == MNInit /\ PAIdle /\ BOIdle /\ PVIdle /\ RSIdle /\ SGIdle /\ GNIdle /\ STIdle /\ DSIdle /\ WTIdle /\ SCIdle /\ TNIdle /\ DAIdle /\ LAIdle /\ PXIdle /\ WPIdle /\ LFIdle

SpecMain == InitMain /\ [][Main]_vars

InitDeploy == DAInit /\ PAIdle /\ BOIdle /\ PVIdle /\ RSIdle /\ SGIdle /\ GNIdle /\ STIdle /\ DSIdle /\ WTIdle /\ SCIdle /\ TNIdle /\ MNIdle /\ LAIdle /\ PXIdle /\ WPIdle /\ LFIdle

SpecDeploy == InitDeploy /\ [][Deploy]_vars

InitLocalApp == LAInit /\ PAIdle /\ BOIdle /\ PVIdle /\ RSIdle /\ SGIdle /\ GNIdle /\ STIdle /\ DSIdle /\ WTIdle /\ SCIdle /\ TNIdle /\ MNIdle /\ DAIdle /\ PXIdle /\ WPIdle /\ LFIdle

SpecLocalApp == InitLocalApp /\ [][LocalApp]_vars

InitParseContext == PXInit /\ PAIdle /\ BOIdle /\ PVIdle /\ RSIdle /\ SGIdle /\ GNIdle /\ STIdle /\ DSIdle /\ WTIdle /\ SCIdle /\ TNIdle /\ MNIdle /\ DAIdle /\ LAIdle /\ WPIdle /\ LFIdle

SpecParseContext == InitParseContext /\ [][CallParseContext]_vars

InitWaitPods == WPInit /\ PAIdle /\ BOIdle /\ PVIdle /\ RSIdle /\ SGIdle /\ GNIdle /\ STIdle /\ DSIdle /\ WTIdle /\ SCIdle /\ TNIdle /\ MNIdle /\ DAIdle /\ LAIdle /\ PXIdle /\ LFIdle

\* WaitForAllPodsToBeReady keeps running while it can; neither a
\* cancellation nor a pod's becoming ready is bound to happen.
SpecWaitPods ==
  /\ InitWaitPods
  /\ [][WaitForAllPodsToBeReady]_vars
  /\ WF_vars(WaitPodsPoll \/ WaitPodsSleep \/ WaitPodsReturn)

InitLoft == LFInit /\ PAIdle /\ BOIdle /\ PVIdle /\ RSIdle /\ SGIdle /\ GNIdle /\ STIdle /\ DSIdle /\ WTIdle /\ SCIdle /\ TNIdle /\ MNIdle /\ DAIdle /\ LAIdle /\ PXIdle /\ WPIdle

SpecLoft == InitLoft /\ [][Loft]_vars

Range(s) == {s[i] : i \in 1..Len(s)}

\* C1: for N items of which fn fails on exactly M, ProcessArray returns
\* exactly N-M results (the successful items, as a set) and a non-nil error
\* if and only if M > 0.
ProcessArrayContract ==
  (mpc = "done" /\ ~ctxDone) =>
     /\ Len(retResults) = numItems - Cardinality(failing)
     /\ Range(retResults) = (1..numItems) \ failing
     /\ (retErr # "nil") <=> (failing # {})

\* C7 (as claimed): a Backoff whose context was cancelled before fn ever
\* succeeded returns the context's cancellation error.
BackoffCancelReturnsCtxErr ==
  (bpc = "done" /\ bctxDone /\ bret # "nil") => bret = "context canceled"

\* C7 (amended): after the cancellation Backoff starts at most one more
\* attempt; the cancellation error is returned only for a cancelled
\* context, and a "reached maximum attempts" that comes before the retries
\* are used up is how a cancellation seen by NextBackOff is reported.
BackoffCancelPrompt ==
  /\ callsAfterCancel <= 1
  /\ (bpc = "done" /\ bret = "context canceled") => bctxDone
  /\ (bpc = "done" /\ bret = "reached maximum attempts" /\ numTries < max) => bctxDone
  /\ (bpc = "done" /\ bctxDone /\ bret # "nil") =>
        bret \in {"context canceled", "reached maximum attempts"}

BackoffCancelPromptWitness ==
  /\ bpc = "done" /\ bctxDone
  /\ bret = "reached maximum attempts"
  /\ numTries < max
  /\ fnCalls >= 2

\* C8: fn fails exactly k times and then succeeds, the context is never
\* cancelled: Backoff returns nil when max >= k and "reached maximum
\* attempts" when max < k.
BackoffExhaustion ==
  (bpc = "done" /\ ~bctxDone) =>
     /\ (max >= failures) => bret = "nil"
     /\ (max < failures) => bret = "reached maximum attempts"

BackoffExhaustionWitness ==
  /\ bpc = "done" /\ ~bctxDone
  /\ failures >= 2 /\ max >= failures
  /\ bret = "nil" /\ fnCalls = failures + 1

\* C2: when the snapshot-restore branch of provisioning fails, the run
\* makes exactly one destroy attempt, on the cluster it created, before it
\* returns.
RollbackDestroysOnce ==
  (ppc = "done" /\ restoreErr # "none") => destroyCalls = <<created>>

\* C3: after provisioning failed in the snapshot-restore branch, the
\* persisted context does not reference the cluster created by that run.
RollbackLeavesNoContext ==
  (ppc = "done" /\ restoreErr # "none") => configFile # created

\* C4: on a failure of the snapshot restore, provisioning returns the
\* original restore error, however the cleanup turns out.
RollbackReturnsRestoreError ==
  (ppc = "done" /\ restoreErr # "none") => pret = "failed to provision from snapshot"

\* C5: a live restore the operator did not confirm deletes no namespace
\* and returns "denied to proceed"; in a live restore nothing is deleted or
\* created before the operator has answered yes.
RestoreDeniedDeletesNothing ==
  /\ (liveRestore /\ (nsDeleteCalls # {} \/ restoreDeletes > 0 \/ restorePhase # "none"))
        => answer = "Yes"
  /\ (liveRestore /\ answer = "No") =>
        /\ rpc = "done" /\ rret = "denied to proceed"
        /\ nsDeleteCalls = {} /\ pending = {} /\ restoreDeletes = 0

RestoreDeniedWitness ==
  /\ rpc = "done" /\ liveRestore /\ answer = "No"
  /\ rret = "denied to proceed"
  /\ namespaces \cap AppNamespaces # {}
  /\ existingRestore = "Completed"

CatalogAppendOnly ==
  [][ /\ \A k \in SnapshotTargets \X Channels :
           \E new \in {<<>>} \cup {<<i>> : i \in 1..nextItem} :
              catalog'[k] = new \o catalog[k]
      /\ (catalog' # catalog) =>
           \A g \in generated : catalog'[<<g[1], channel>>] = <<g[2]>> \o catalog[<<g[1], channel>>]
    ]_vars

\* C10 (as claimed): Unknown without a container engine; Unprovisioned
\* without a container; Stopped for an exited container; Running with the
\* Kubernetes version when the container runs and the checks succeed;
\* Degraded with a reason when the pod list fails.
StatusClassifier ==
  status.Status \notin {"none", "idle"} =>
    /\ dockerClient = "nil" => status.Status = "Unknown"
    /\ (dockerClient = "ok" /\ inspectDevenv = "notfound" /\ inspectK3s = "notfound")
          => status.Status = "Unprovisioned"
    /\ (dockerClient = "ok" /\ Container(inspectDevenv, inspectK3s) = "exited")
          => status.Status = "Stopped"
    /\ (dockerClient = "ok" /\ kubeClient = "ok"
          /\ Container(inspectDevenv, inspectK3s) = "running"
          /\ podList = "ok" /\ serverVersion # "error" /\ dnsCheck = "ok")
          => (status.Status = "Running" /\ status.KubernetesVersion = serverVersion)
    /\ (dockerClient = "ok" /\ kubeClient = "ok"
          /\ Container(inspectDevenv, inspectK3s) = "running" /\ podList = "error")
          => (status.Status = "Degraded" /\ status.Reason # "")

\* C10 (amended): as claimed, except that an exited container yields
\* Stopped only if a Kubernetes client could be created; without one the
\* status is Unprovisioned whatever the container's state.
StatusClassifierWithClient ==
  status.Status \notin {"none", "idle"} =>
    /\ dockerClient = "nil" => status.Status = "Unknown"
    /\ (dockerClient = "ok" /\ inspectDevenv = "notfound" /\ inspectK3s = "notfound")
          => status.Status = "Unprovisioned"
    /\ (dockerClient = "ok" /\ kubeClient = "nil") => status.Status = "Unprovisioned"
    /\ (dockerClient = "ok" /\ kubeClient = "ok"
          /\ Container(inspectDevenv, inspectK3s) = "exited")
          => status.Status = "Stopped"
    /\ (dockerClient = "ok" /\ kubeClient = "ok"
          /\ Container(inspectDevenv, inspectK3s) = "running"
          /\ podList = "ok" /\ serverVersion # "error" /\ dnsCheck = "ok")
          => (status.Status = "Running" /\ status.KubernetesVersion = serverVersion)
    /\ (dockerClient = "ok" /\ kubeClient = "ok"
          /\ Container(inspectDevenv, inspectK3s) = "running" /\ podList = "error")
          => (status.Status = "Degraded" /\ status.Reason # "")

StatusClassifierWitness ==
  /\ status.Status = "Stopped"
  /\ dockerClient = "ok" /\ kubeClient = "ok"
  /\ inspectDevenv = "exited"
  /\ podList = "error"

\* C11: while a cluster with the target's canonical name exists that this
\* run did not create, provisioning does not get past its existence check:
\* it creates nothing and ends with an error.
ProvisionRefusesExisting ==
  (created = <<>> /\ <<runtimeName, ClusterName(runtimeName)>> \in clusters) =>
     /\ ppc \in {"checkPrereqs", "getClusters", "done"}
     /\ (ppc = "done") => pret \notin {"none", "nil"}

RestoreRefusesInProgress ==
  existingRestore = "InProgress" =>
     /\ nsDeleteCalls = {} /\ restoreDeletes = 0 /\ restorePhase = "none"
     /\ (rpc = "done") => rret \notin {"none", "nil"}

\* C14: when the uploader's Prepare finds the destination's marker
\* recording the requested digest (it clears nothing), the run is over
\* with success at that step: no archive is downloaded, nothing is put.
UploaderSkipsOnMarker ==
  [][ (/\ stager = "uploader" /\ spc = "Prepare" /\ spc' # "Prepare"
       /\ marker = confDigest /\ removes' = removes)
        => (spc' = "done" /\ sret' = "nil" /\ downloads' = 0 /\ puts' = 0) ]_vars

\* C15: a checksum mismatch ends the download for good: the download is
\* not started again after it, nothing of the archive is put, and the
\* staging run ends with an error.
ChecksumMismatchFatal ==
  downloadErr = "downloaded snapshot failed checksum validation" =>
     /\ spc # "DownloadFile"
     /\ toUpload = {} /\ puts = 0
     /\ (spc = "done") => sret \notin {"none", "nil"}

\* C16: a poll loop returns success only if the awaited condition was
\* observed; one that was cancelled before returns an error.
WaitNeverFeignsSuccess ==
  (wtpc = "done" /\ wtret = "nil") => wtReached

\* C17: once ProcessArray is past wg.Wait(), fn has been invoked exactly
\* once for each input item and no invocation is pending or under way:
\* every worker is back at its select or has exited.
ProcessArrayAccountsForAll ==
  mpc \in {"check", "return", "done"} =>
     /\ \A i \in 1..numItems : calls[i] = 1
     /\ \A i \in (numItems + 1)..MaxItems : calls[i] = 0
     /\ \A w \in Workers : wpc[w] \in {"select", "exit"}
     /\ sent = numItems /\ wg = 0

ProcessArrayAccountsForAllWitness ==
  /\ mpc = "done"
  /\ numItems = 2 /\ failing = {2}
  /\ calls[1] = 1 /\ calls[2] = 1
  /\ retErr = "errors occurred"

\* C18: switching context writes the context file in its last step only:
\* the file differs from what it was only after the hosts update and the
\* kubeconfig write succeeded, and a run that failed at an earlier step
\* (unknown context, home directory, client, hosts, kubeconfig) leaves
\* the file as it was.
SetContextSavesLast ==
  /\ (scFile # scFile0) =>
        (scpc = "done" /\ scHosts = "new" /\ scKubeconfig = "new"
           /\ scret \in {"nil", "failed to save devenv config"})
  /\ (scpc = "done" /\ scret \notin {"nil", "failed to save devenv config"}) =>
        scFile = scFile0
  /\ (scpc = "done" /\ scret = "nil" /\ scDesired # <<"">>) => scFile = scDesired

SetContextSavesLastWitness ==
  /\ scpc = "done"
  /\ scret = "failed to write kubeconfig"
  /\ scHosts = "new" /\ scConf = <<"loft", "user-devenv">>
  /\ scFile0 = <<"kind", "dev-environment">> /\ scFile = scFile0

\* C19: with a devenv that is not running, tunnel never launches the
\* tunnel helper and ends with an error.
TunnelRequiresDevenv ==
  tnStatus # "Running" =>
     /\ tnLaunches = 0 /\ tnHelper = "none"
     /\ (tnpc = "done") => tnret \notin {"none", "nil"}

\* C20: the process exits with status 0 when the invoked command succeeds
\* and with status 1 when the command returns an error.
ExitCodeContract ==
  mnExited =>
     /\ (mnResult = "nil") => mnStatus = 0
     /\ (mnResult = "error") => mnStatus = 1

\* C21: a failure of namespace cleanup during a restore never aborts the
\* restore: RestoreSnapshot does not return the cleanup's error.
RestoreCleanupNeverAborts ==
  (nsFailed /\ rpc = "done") => rret # "errors occurred"

\* C22 (as stated): a checkout with service.yaml resolves to bootstrap,
\* one with only the legacy deploy script to legacy, and one with neither
\* ends with the error "unknown application type" and no deploy attempt.
DeployTypeUnknownError ==
  (dapc \in {"deleteJobs", "deploy", "done"} /\ daret # "git clone failed") =>
     /\ daServiceYaml => daType = TypeBootstrap
     /\ (~daServiceYaml /\ daDeployScript) => daType = TypeLegacy
     /\ (~daServiceYaml /\ ~daDeployScript) =>
           /\ dapc = "done" /\ daret = "unknown application type"
           /\ daDeploys = <<>> /\ daBuilds = 0

\* C22 (amended): the same, the error of a checkout with neither file being
\* "failed to determine application type".
DeployTypeResolution ==
  (dapc \in {"deleteJobs", "deploy", "done"} /\ daret # "git clone failed") =>
     /\ daServiceYaml => daType = TypeBootstrap
     /\ (~daServiceYaml /\ daDeployScript) => daType = TypeLegacy
     /\ (~daServiceYaml /\ ~daDeployScript) =>
           /\ dapc = "done" /\ daret = "failed to determine application type"
           /\ daDeploys = <<>> /\ daBuilds = 0
     /\ \A i \in 1..Len(daDeploys) : daDeploys[i] = daType

\* C22 witness: a checkout with both files was deployed as bootstrap.
DeployTypeResolutionWitness ==
  /\ daServiceYaml /\ daDeployScript
  /\ dapc = "done" /\ daType = TypeBootstrap
  /\ daDeploys = <<TypeBootstrap>> /\ daret = "nil"

\* C23: once Run has resolved its target, accounts gives namespace and app
\* outreach-accounts; client gives namespace bento1a, app orca-proxy and a
\* bundled-manifest path; foo with no explicit namespace gives foo--bento1a.
LocalAppSpecialNames ==
  lapc \in {"ensure", "extract", "createManifests", "expose", "removeManifests"} =>
     /\ laArg = "accounts" =>
           laOpts.Namespace = "outreach-accounts" /\ laOpts.AppName = "outreach-accounts"
     /\ laArg = "client" =>
           /\ laOpts.Namespace = "bento1a" /\ laOpts.AppName = "orca-proxy"
           /\ laOpts.CreateManifests # ""
     /\ (laArg = "foo" /\ laNsFlag = "" /\ ~laNotBootstrap) =>
           laOpts.Namespace = "foo--bento1a" /\ laOpts.AppName = "foo"

\* C23 witness: local-app accounts has exposed outreach-accounts.
LocalAppSpecialNamesWitness ==
  /\ laArg = "accounts" /\ lapc = "done" /\ laret = "nil" /\ laExposes = 1
  /\ laOpts.Namespace = "outreach-accounts" /\ laOpts.AppName = "outreach-accounts"

\* C30: when applying the prerequisite manifests of a started local-app
\* fails, the expose command is not run and local-app returns an error.
LocalAppManifestFailureFatal ==
  (~laOpts.Stop /\ \E i \in 1..Len(laKubecfg) : ~laKubecfg[i][3]) =>
     /\ laExposes = 0
     /\ (lapc = "done") => laret \notin {"none", "nil"}

\* C24: ParseContext returns the text before and the text after the ':'
\* when the value holds exactly one ':', and two empty strings otherwise.
ParseContextExactlyOneColon ==
  pxpc = "done" =>
     IF Cardinality({i \in DOMAIN pxInput : pxInput[i] = ":"}) = 1
       THEN /\ pxInput = pxRuntime \o <<":">> \o pxName
            /\ ":" \notin Range(pxRuntime) \cup Range(pxName)
       ELSE pxRuntime = <<>> /\ pxName = <<>>

\* C24 witness: a value with two ':' ("a:b:a") was parsed to two empty
\* strings.
ParseContextWitness ==
  /\ pxpc = "done"
  /\ pxInput = <<"a", ":", "b", ":", "a">>
  /\ pxRuntime = <<>> /\ pxName = <<>>

\* C25: once its parent context is cancelled, ProcessArray eventually
\* returns, every call of the per-item function returning.
ProcessArrayReturnsOnCancel ==
  ctxDone ~> (mpc = "done")

\* C26: once the submitted restore's phase has left New/InProgress,
\* RestoreSnapshot eventually returns.
RestoreReturnsAfterPhaseChange ==
  (restorePhase \notin {"none", "New", "InProgress"}) ~> (rpc = "done")

\* C27: between staging runs, a marker recording digest D means the bucket
\* holds every file of the archive with digest D, taken from that archive,
\* and nothing else.
StagingMarkerTruthful ==
  spc = "done" =>
     \A a \in Archives :
        marker = Digest(a) => bucket = {<<f, a>> : f \in Files(a)}

\* C28: the wait for all pods to be ready stops after finitely many polls
\* even if a pod never becomes ready and the context is never cancelled.
WaitForPodsBounded ==
  (wpPods["app-0"] = "crashloop") => <>(wppc = "done" \/ wpCtxDone)

\* C29: every read and write of the derived cluster name happens with the
\* mutex held by the caller making it, so no read runs while another
\* caller is writing the name.
LoftClusterNameGuarded ==
  /\ \A t \in LoftCallers : lfpc[t] \in {"test", "assign", "read"} => lfMu = t
  /\ ~lfRaced

====
